---- MODULE Spec2Model ----
(***************************************************************************)
(* Consistency Scoring Engine of doc-consistency-agent.                    *)
(*                                                                         *)
(* Texts are TLA+ strings, handled character by character exactly as the   *)
(* Python code handles them (lower, replace, split, substring search,      *)
(* regular-expression scans).  A real number x >= 0 that the code holds as *)
(* a float (a cosine similarity, a score) is held as the reduced fraction  *)
(* of its square, [n |-> a, d |-> b] with x*x = a/b, together with the     *)
(* side on which the IEEE-754 double of the code lies when the real number *)
(* equals a constant the code compares it with (field off); there the      *)
(* double is computed bit for bit (sqrt, *, /, round to nearest even).     *)
(***************************************************************************)
EXTENDS Integers, Sequences, FiniteSets, TLC

\* ------------------------------------------------------------------------
\* Bounds of the model.
\* ------------------------------------------------------------------------
\* Number of lexicon fragments concatenated into one code text.
MaxPieces == 2
\* the audited sources of the label checks define at most MaxEntities entities
MaxEntities == 5
\* the scored entity sets of the count checks hold at most MaxFound entities
MaxFound == 50
\* a pipeline run finds at most MaxDocs undocumented functions and at most
\* MaxDocs documented ones
MaxDocs == 2
\* a markdown file holds at most MaxLines lines
MaxLines == 3

\* ------------------------------------------------------------------------
\* Character-level string helpers (Python str semantics, ASCII).
\* ------------------------------------------------------------------------
CharAt(s, i) == SubSeq(s, i, i)

UpperChars == "ABCDEFGHIJKLMNOPQRSTUVWXYZ"
LowerChars == "abcdefghijklmnopqrstuvwxyz"
DigitChars == "0123456789"

\* the set of the characters of a string
CharSet(chars) == {CharAt(chars, i) : i \in 1..Len(chars)}

UpperSet == CharSet(UpperChars)
LowerSet == CharSet(LowerChars)
DigitSet == CharSet(DigitChars)

\* str.lower() on one upper-case character
LowerMap ==
    [c \in UpperSet |->
        CharAt(LowerChars, CHOOSE k \in 1..Len(UpperChars) : CharAt(UpperChars, k) = c)]

LowerChar(c) == IF c \in UpperSet THEN LowerMap[c] ELSE c

RECURSIVE LowerFrom(_, _)
LowerFrom(s, i) ==
    IF i > Len(s) THEN ""
    ELSE LowerChar(CharAt(s, i)) \o LowerFrom(s, i + 1)

\* str.lower()
Lower(s) == LowerFrom(s, 1)

RECURSIVE ReplaceFrom(_, _, _)
ReplaceFrom(s, i, chars) ==
    IF i > Len(s) THEN ""
    ELSE (IF CharAt(s, i) \in chars THEN " " ELSE CharAt(s, i))
         \o ReplaceFrom(s, i + 1, chars)

\* every character of s that is in the set chars is replaced by one space
\* (str.replace(c, " ") for each c, re.sub('[chars]', ' ', s))
ReplaceWithSpace(s, chars) == ReplaceFrom(s, 1, chars)

\* the ASCII characters str.strip(), str.split() and \s treat as whitespace:
\* space, \n, \t, \r, \f, and (written raw) \x0b, \x1c, \x1d, \x1e, \x1f
IsSpace(c) ==
    c \in {" ", "\n", "\t", "\r", "\f", "", "", "", "", ""}

\* str.strip() = "" : the text is empty or whitespace-only
IsBlank(s) == \A i \in 1..Len(s) : IsSpace(CharAt(s, i))

\* needle in hay (Python substring test)
Contains(hay, needle) ==
    \E i \in 1..(Len(hay) - Len(needle) + 1) :
        SubSeq(hay, i, i + Len(needle) - 1) = needle

\* s[i:].startswith(p)
StartsAt(s, i, p) == /\ i + Len(p) - 1 <= Len(s)
                     /\ SubSeq(s, i, i + Len(p) - 1) = p

\* \w of the regular expressions (ASCII)
WordSet == LowerSet \cup UpperSet \cup DigitSet \cup {"_"}

IsWordChar(c) == c \in WordSet

\* membership of one character in a named character class
InClass(c, cls) ==
    CASE cls = "space" -> IsSpace(c)
      [] cls = "nonspace" -> ~IsSpace(c)
      [] cls = "word" -> IsWordChar(c)
      [] cls = "wordhyphen" -> IsWordChar(c) \/ c = "-"
      [] OTHER -> FALSE

RECURSIVE RunEnd(_, _, _)
\* first index j >= i whose character is not of class cls (Len(s)+1 when
\* the run reaches the end): the end of a greedy  [cls]*  started at i
RunEnd(s, i, cls) ==
    IF i > Len(s) THEN i
    ELSE IF InClass(CharAt(s, i), cls) THEN RunEnd(s, i + 1, cls) ELSE i

RECURSIVE SplitFrom(_, _)
\* str.split(): maximal runs of non-whitespace characters, in order
SplitFrom(s, i) ==
    LET b == RunEnd(s, i, "space")
    IN  IF b > Len(s) THEN <<>>
        ELSE LET e == RunEnd(s, b, "nonspace")
             IN  <<SubSeq(s, b, e - 1)>> \o SplitFrom(s, e)

Split(s) == SplitFrom(s, 1)

Range(f) == {f[i] : i \in DOMAIN f}

RECURSIVE SumOver(_, _)
\* sum of f[x] over the finite set S
SumOver(S, f) ==
    IF S = {} THEN 0
    ELSE LET x == CHOOSE y \in S : TRUE
         IN  f[x] + SumOver(S \ {x}, f)

\* ASCII order of the printable characters of the modelled alphabet (the
\* backquote is left out), for string comparison
AsciiOrder ==
    " !\"#$%&'(" \o ")*+,-./0123456789:;<=>?@ABCDEFGHIJKLMNOPQRSTUVWXYZ[\\]^_"
    \o "abcdefghijklmnopqrstuvwxyz{|}~"

OrdMap ==
    [c \in CharSet(AsciiOrder) |->
        CHOOSE k \in 1..Len(AsciiOrder) : CharAt(AsciiOrder, k) = c]

Ord(c) == OrdMap[c]

RECURSIVE StrLess(_, _)
\* a < b for Python strings (lexicographic by code point)
StrLess(a, b) ==
    IF b = "" THEN FALSE
    ELSE IF a = "" THEN TRUE
    ELSE IF CharAt(a, 1) = CharAt(b, 1)
         THEN StrLess(SubSeq(a, 2, Len(a)), SubSeq(b, 2, Len(b)))
         ELSE Ord(CharAt(a, 1)) < Ord(CharAt(b, 1))

RECURSIVE SortedSeq(_)
\* sorted(list(S)) for a set S of strings
SortedSeq(S) ==
    IF S = {} THEN <<>>
    ELSE LET m == CHOOSE x \in S : \A y \in S \ {x} : StrLess(x, y)
         IN  <<m>> \o SortedSeq(S \ {m})

\* ------------------------------------------------------------------------
\* Numbers.  A float x >= 0 is the record [n, d, off, dbl]: n/d is the
\* reduced fraction of the square of the real number the arithmetic of the
\* code aims at, and off tells the double the code holds from the double
\* nearest to that real: -1 below it, 0 equal, 1 above.  off is worked out
\* where a comparison of the code can observe it, that is when the real
\* number equals a constant the code compares the score with (TiePoints);
\* elsewhere the double lies on the same side of every such constant as the
\* real number does, and off is 0.  dbl is the double itself, kept for the
\* raw similarity of these cases, <<>> otherwise.
\* ------------------------------------------------------------------------
RECURSIVE Gcd(_, _)
Gcd(a, b) == IF b = 0 THEN a ELSE Gcd(b, a % b)

\* the number whose square is a/b  (a >= 0, b > 0), held exactly
SqFrac(a, b) ==
    LET g == Gcd(a, b) IN [n |-> a \div g, d |-> b \div g, off |-> 0, dbl |-> <<>>]

\* the rational p/q  (p >= 0, q > 0): the float literal p/q
Rat(p, q) == SqFrac(p * p, q * q)

Zero == Rat(0, 1)
One == Rat(1, 1)

\* x < y and x <= y of two floats
NumLess(x, y) ==
    \/ x.n * y.d < y.n * x.d
    \/ x.n * y.d = y.n * x.d /\ x.off < y.off
NumLeq(x, y) ==
    \/ x.n * y.d < y.n * x.d
    \/ x.n * y.d = y.n * x.d /\ x.off <= y.off

\* x * (p/q)
NumScale(x, p, q) == SqFrac(x.n * p * p, x.d * q * q)

\* min(x, y)
NumMin(x, y) == IF NumLess(y, x) THEN y ELSE x

\* The outcome of an evaluation that can raise: the value it returns, or the
\* exception that propagates to the nearest handler.
Ok(v) == [ok |-> v]
Raise(text) == [exc |-> text]
IsExc(r) == "exc" \in DOMAIN r

\* ------------------------------------------------------------------------
\* src/src/agent/stat_analysis.py : StatisticalAnalyzer
\* ------------------------------------------------------------------------
stop_words ==
    {"this", "function", "a", "an", "the", "is", "are", "to", "of", "for",
     "in", "with", "it", "and", "from", "into", "that", "which", "who",
     "whose", "whom", "where", "when", "why", "how", "its", "as", "at",
     "by", "be", "been", "being", "can", "could", "do", "does", "did",
     "done", "doing", "has", "have", "had", "having", "will", "would",
     "should", "may", "might", "must", "shall", "about", "above",
     "below", "under", "over", "again", "once", "then", "else", "or",
     "but", "so", "than", "while", "module", "class", "method", "returns",
     "returning", "takes", "inputs", "output", "computes", "calculates",
     "performing", "process", "using", "used", "base", "price"}

\* the dict keeps insertion order: a sequence of (trigger, synonyms)
operational_map ==
    << [trigger |-> "dist", synonyms |-> <<"distance", "euclidean", "metric", "path">>],
       [trigger |-> "calc", synonyms |-> <<"calculate", "compute", "evaluate", "formula">>],
       [trigger |-> "fetch", synonyms |-> <<"retrieve", "get", "load", "download">>],
       [trigger |-> "save", synonyms |-> <<"store", "persist", "write", "export">>],
       [trigger |-> "train", synonyms |-> <<"fit", "learn", "optimize", "model">>],
       [trigger |-> "predict", synonyms |-> <<"infer", "forecast", "estimate", "output">>],
       [trigger |-> "sqrt", synonyms |-> <<"root", "square", "math">>],
       [trigger |-> "log", synonyms |-> <<"logarithm", "scale", "transform">> ] >>

\* a slip: the one-character tokens are kept
KeepTokensAnyLength(tokens) ==
    SelectSeq(tokens, LAMBDA t : t \notin stop_words)

\* [t for t in tokens if t not in stop_words and len(t) > 1]
KeepTokens(tokens) ==
    SelectSeq(tokens, LAMBDA t : t \notin stop_words /\ Len(t) > 1)

\* the character class of re.sub(r'[()\[\]{}:,.=;\'"/-]', " ", text)
StructuralPunctuation == CharSet("()[]{}:,.=;'\"/-")

\* preprocess(text): lower, "_" -> " ", structural punctuation -> " ",
\* split on whitespace, drop stop words and one-character tokens
preprocess(text) ==
    KeepTokens(Split(ReplaceWithSpace(ReplaceWithSpace(Lower(text), {"_"}),
                                      StructuralPunctuation)))

\* collections.Counter(tokens): token -> number of occurrences
Counter(tokens) ==
    [t \in Range(tokens) |->
        Cardinality({i \in DOMAIN tokens : tokens[i] = t})]

\* ------------------------------------------------------------------------
\* IEEE-754 double arithmetic, round to nearest even.  A natural number is
\* the sequence of its digits in base 2^15, least significant first; a
\* double is [m, e], m a natural number of 53 bits (four digits) whose top
\* bit is 1, of value m * 2^e.
\* ------------------------------------------------------------------------
TwoTo(k) ==
    <<1, 2, 4, 8, 16, 32, 64, 128, 256, 512, 1024, 2048, 4096, 8192, 16384,
      32768>>[k + 1]

Base == TwoTo(15)

RECURSIVE Digits(_)
Digits(n) == IF n = 0 THEN <<>> ELSE <<n % Base>> \o Digits(n \div Base)

Digit(a, i) == IF i >= 1 /\ i <= Len(a) THEN a[i] ELSE 0

\* bit i of a, the lowest being bit 1
BitOf(a, i) == (Digit(a, (i - 1) \div 15 + 1) \div TwoTo((i - 1) % 15)) % 2

\* the position of the highest bit 1 of a, 0 when a is 0
TopBit(a) ==
    IF \A i \in 1..Len(a) : a[i] = 0 THEN 0
    ELSE CHOOSE t \in 1..(15 * Len(a)) :
             BitOf(a, t) = 1 /\ \A u \in (t + 1)..(15 * Len(a)) : BitOf(a, u) = 0

\* a * Base^k
ShiftDigits(a, k) == [i \in 1..(Len(a) + k) |-> IF i <= k THEN 0 ELSE a[i - k]]

\* k digits 0
Zeros(k) == [i \in 1..k |-> 0]

\* the sign of a - b
Cmp(a, b) ==
    LET differ == {i \in 1..(IF Len(a) < Len(b) THEN Len(b) ELSE Len(a)) :
                       Digit(a, i) # Digit(b, i)}
        top == CHOOSE i \in differ : \A j \in differ : j <= i
    IN  IF a = b \/ differ = {} THEN 0
        ELSE IF Digit(a, top) < Digit(b, top) THEN -1 ELSE 1

\* the low and the high digit of the product of digit i of a and digit j of b
Low(a, b, i, j) == (a[i] * b[j]) % Base

High(a, b, i, j) == (a[i] * b[j]) \div Base

\* a as six digits
SixDigits(a) == SubSeq([i \in 1..6 |-> Digit(a, i)], 1, 6)

\* the twelve columns of a * b for a and b of six digits: column k adds the
\* low digits of the products of its digits and the high digits of the
\* products of column k - 1
Columns(a, b) ==
    <<
      (Low(a, b, 1, 1)),
      (Low(a, b, 1, 2) + Low(a, b, 2, 1)) + (High(a, b, 1, 1)),
      (Low(a, b, 1, 3) + Low(a, b, 2, 2) + Low(a, b, 3, 1))
        + (High(a, b, 1, 2) + High(a, b, 2, 1)),
      (Low(a, b, 1, 4) + Low(a, b, 2, 3) + Low(a, b, 3, 2)
        + Low(a, b, 4, 1)) + (High(a, b, 1, 3) + High(a, b, 2, 2)
        + High(a, b, 3, 1)),
      (Low(a, b, 1, 5) + Low(a, b, 2, 4) + Low(a, b, 3, 3)
        + Low(a, b, 4, 2) + Low(a, b, 5, 1)) + (High(a, b, 1, 4)
        + High(a, b, 2, 3) + High(a, b, 3, 2) + High(a, b, 4, 1)),
      (Low(a, b, 1, 6) + Low(a, b, 2, 5) + Low(a, b, 3, 4)
        + Low(a, b, 4, 3) + Low(a, b, 5, 2) + Low(a, b, 6, 1))
        + (High(a, b, 1, 5) + High(a, b, 2, 4) + High(a, b, 3, 3)
        + High(a, b, 4, 2) + High(a, b, 5, 1)),
      (Low(a, b, 2, 6) + Low(a, b, 3, 5) + Low(a, b, 4, 4)
        + Low(a, b, 5, 3) + Low(a, b, 6, 2)) + (High(a, b, 1, 6)
        + High(a, b, 2, 5) + High(a, b, 3, 4) + High(a, b, 4, 3)
        + High(a, b, 5, 2) + High(a, b, 6, 1)),
      (Low(a, b, 3, 6) + Low(a, b, 4, 5) + Low(a, b, 5, 4)
        + Low(a, b, 6, 3)) + (High(a, b, 2, 6) + High(a, b, 3, 5)
        + High(a, b, 4, 4) + High(a, b, 5, 3) + High(a, b, 6, 2)),
      (Low(a, b, 4, 6) + Low(a, b, 5, 5) + Low(a, b, 6, 4))
        + (High(a, b, 3, 6) + High(a, b, 4, 5) + High(a, b, 5, 4)
        + High(a, b, 6, 3)),
      (Low(a, b, 5, 6) + Low(a, b, 6, 5)) + (High(a, b, 4, 6)
        + High(a, b, 5, 5) + High(a, b, 6, 4)),
      (Low(a, b, 6, 6)) + (High(a, b, 5, 6) + High(a, b, 6, 5)),
      (High(a, b, 6, 6))
    >>

\* the columns t with what each holds above a digit moved one column up:
\* every column is then at most a digit plus a carry of 1
Lowered(t) ==
    SubSeq([k \in 1..(Len(t) + 1) |-> (Digit(t, k) % Base) + (Digit(t, k - 1) \div Base)],
           1, Len(t) + 1)

\* a carry of 1 enters column k of u: the nearest column below that
\* overflows is followed by full columns only
CarryInto(u, k) ==
    LET over == {j \in 1..(k - 1) : u[j] >= Base}
    IN  /\ over # {}
        /\ \A i \in ((CHOOSE j \in over : \A h \in over : h <= j) + 1)..(k - 1) :
               u[i] >= Base - 1

Carried(u) ==
    SubSeq([k \in 1..Len(u) |-> (u[k] + (IF CarryInto(u, k) THEN 1 ELSE 0)) % Base],
           1, Len(u))

\* a * b for a and b of at most six digits
Mul(a, b) == Carried(Lowered(Columns(SixDigits(a), SixDigits(b))))

\* a + b
Add(a, b) ==
    Carried(Lowered([i \in 1..(IF Len(a) < Len(b) THEN Len(b) ELSE Len(a)) |->
                        Digit(a, i) + Digit(b, i)]))

\* r with v added to its digit j, which stays a digit
With(r, j, v) == [r EXCEPT ![j] = @ + v]

\* set * y <= x, or set * set <= x when y is <<>>
Fits(x, y, set) == Cmp(Mul(IF y = <<>> THEN set ELSE y, set), x) <= 0

\* the largest h in 0..7 for which r with h * w added to digit j fits
Pick3(x, y, r, j, w) ==
    IF Fits(x, y, With(r, j, 4 * w))
    THEN IF Fits(x, y, With(r, j, 6 * w))
         THEN (IF Fits(x, y, With(r, j, 7 * w)) THEN 7 ELSE 6)
         ELSE (IF Fits(x, y, With(r, j, 5 * w)) THEN 5 ELSE 4)
    ELSE IF Fits(x, y, With(r, j, 2 * w))
         THEN (IF Fits(x, y, With(r, j, 3 * w)) THEN 3 ELSE 2)
         ELSE (IF Fits(x, y, With(r, j, w)) THEN 1 ELSE 0)

\* digit j of r, which is 0, settled three bits at a time from group s down
RECURSIVE SettleDigit(_, _, _, _, _)
SettleDigit(x, y, r, j, s) ==
    IF s = 0 THEN r
    ELSE LET h == Pick3(x, y, r, j, TwoTo(3 * (s - 1)))
         IN  IF h = 0 THEN SettleDigit(x, y, r, j, s - 1)
             ELSE SettleDigit(x, y, With(r, j, h * TwoTo(3 * (s - 1))), j, s - 1)

\* the largest number extending r in the digits j and below whose product
\* does not exceed x
RECURSIVE LargestFrom(_, _, _, _)
LargestFrom(x, y, r, j) ==
    IF j = 0 THEN r
    ELSE IF ~Fits(x, y, With(r, j, 1)) THEN LargestFrom(x, y, r, j - 1)
    ELSE LargestFrom(x, y, SettleDigit(x, y, r, j, 5), j - 1)

\* floor(x / y): the largest r of six digits with r * y <= x, and whether
\* r * y = x
Quotient(x, y, r) == [value |-> r, exact |-> Cmp(Mul(y, r), x) = 0]

\* floor(sqrt(x)): the largest r of six digits with r * r <= x, and whether
\* r * r = x
Root(x, r) == [value |-> r, exact |-> Cmp(Mul(r, r), x) = 0]

\* the 53 bits of x from bit low on, as a natural number of four digits
Mantissa(x, low) ==
    [j \in 1..4 |->
        LET bits == {t \in 0..14 : 15 * (j - 1) + t < 53
                                   /\ BitOf(x, low + 15 * (j - 1) + t) = 1}
        IN  (IF 0 \in bits THEN 1 ELSE 0) + (IF 1 \in bits THEN 2 ELSE 0)
            + (IF 2 \in bits THEN 4 ELSE 0) + (IF 3 \in bits THEN 8 ELSE 0)
            + (IF 4 \in bits THEN 16 ELSE 0) + (IF 5 \in bits THEN 32 ELSE 0)
            + (IF 6 \in bits THEN 64 ELSE 0) + (IF 7 \in bits THEN 128 ELSE 0)
            + (IF 8 \in bits THEN 256 ELSE 0) + (IF 9 \in bits THEN 512 ELSE 0)
            + (IF 10 \in bits THEN 1024 ELSE 0)
            + (IF 11 \in bits THEN 2048 ELSE 0)
            + (IF 12 \in bits THEN 4096 ELSE 0)
            + (IF 13 \in bits THEN 8192 ELSE 0)
            + (IF 14 \in bits THEN 16384 ELSE 0)]

\* 2^52 and 2^53 - 1 as mantissas
LeastMantissa == <<0, 0, 0, 128>>
MostMantissa == <<32767, 32767, 32767, 255>>

\* m + 1 for a mantissa m below 2^53 - 1
Increment(m) ==
    LET k == CHOOSE k \in 1..4 : m[k] # Base - 1 /\ \A i \in 1..(k - 1) : m[i] = Base - 1
    IN  [i \in 1..4 |-> IF i < k THEN 0 ELSE IF i = k THEN m[i] + 1 ELSE m[i]]

\* the double nearest to x * 2^e (ties to even), x of more than 53 bits with
\* top bit at position top, m its leading 53 bits; inexact: x is the floor
\* of a larger number
RoundAt(x, e, inexact, top, m) ==
    IF /\ BitOf(x, top - 53) = 1
       /\ \/ inexact
          \/ BitOf(x, top - 52) = 1
          \/ \E i \in 1..(top - 54) : BitOf(x, i) = 1
    THEN IF m = MostMantissa
         THEN [m |-> LeastMantissa, e |-> e + top - 52]
         ELSE [m |-> Increment(m), e |-> e + top - 53]
    ELSE [m |-> m, e |-> e + top - 53]

RoundTop(x, e, inexact, top) ==
    RoundAt(x, e, inexact, top, Mantissa(x, top - 52))

Round(x, e) ==
    IF x.exact THEN RoundTop(x.value, e, FALSE, TopBit(x.value))
    ELSE RoundTop(x.value, e, TRUE, TopBit(x.value))

\* math.sqrt(s) for an integer s >= 1: the root of s * 2^120
SqrtOf(x) == Root(x, LargestFrom(x, <<>>, Zeros(6), 6))

SqrtDouble(s) == Round(SqrtOf(ShiftDigits(Digits(s), 8)), -60)

\* x * y; a power of two only moves the exponent
MulDouble(x, y) ==
    IF x.m = LeastMantissa THEN [m |-> y.m, e |-> y.e + x.e + 52]
    ELSE IF y.m = LeastMantissa THEN [m |-> x.m, e |-> x.e + y.e + 52]
    ELSE Round([value |-> Mul(x.m, y.m), exact |-> TRUE], x.e + y.e)

\* floor(x / y) for y of 53 bits
DivOf(x, y) == Quotient(x, y, LargestFrom(x, y, Zeros(6), 6))

\* float(q) for an integer q >= 1
IntDouble(q) ==
    Round([value |-> ShiftDigits(Digits(q), 4), exact |-> TRUE], -60)

\* float(p) / y for an integer p >= 1; a power of two only moves the
\* exponent
DivDouble(p, y) ==
    IF y.m = LeastMantissa
    THEN [m |-> IntDouble(p).m, e |-> IntDouble(p).e - (y.e + 52)]
    ELSE Round(DivOf(ShiftDigits(Digits(p), 8), y.m), 0 - 120 - y.e)

\* the double of the literal p / q
Nearest(p, q) == DivDouble(p, IntDouble(q))

\* min(1.0, x)
AtMostOne(x) == IF x.e >= -52 THEN [m |-> LeastMantissa, e |-> -52] ELSE x

\* min(1.0, x * 1.5)
BoostDouble(x) ==
    AtMostOne(Round([value |-> Mul(x.m, <<3>>), exact |-> TRUE], x.e - 1))

\* the sign of x - y for two doubles
CmpDouble(x, y) ==
    IF x.e < y.e THEN -1 ELSE IF x.e > y.e THEN 1 ELSE Cmp(x.m, y.m)

\* the constants the code compares a score with: 0.1 (ci_check.py line 67),
\* 0.40, 0.65, 0.85 (lines 113-119), 0.5 (line 90), 1.0 (line 71), as
\* <<p, q>> for p/q
TiePoints == {<<1, 10>>, <<2, 5>>, <<1, 2>>, <<13, 20>>, <<17, 20>>, <<1, 1>>}

\* the double of each constant and of the raw similarity that reaches it
TieDoubles ==
    {[point |-> t, score |-> Nearest(t[1], t[2]),
      raw |-> Nearest(2 * t[1], 3 * t[2])] : t \in TiePoints}

TieDouble(t) == CHOOSE d \in TieDoubles : d.point = t

\* the float of float(numerator) / (sqrt(sum1) * sqrt(sum2)) whose real
\* value is (2/3) * t[1]/t[2]
HeldRaw(t, quotient) ==
    [n |-> Rat(2 * t[1], 3 * t[2]).n, d |-> Rat(2 * t[1], 3 * t[2]).d,
     off |-> CmpDouble(quotient, TieDouble(t).raw),
     dbl |-> quotient]

\* float(numerator) / denominator, denominator = sqrt(sum1) * sqrt(sum2)
FloatDivExact(numerator, sum1, sum2, exact) ==
    IF \E t \in TiePoints : exact = Rat(2 * t[1], 3 * t[2])
    THEN HeldRaw(CHOOSE t \in TiePoints : exact = Rat(2 * t[1], 3 * t[2]),
                 DivDouble(numerator,
                           MulDouble(SqrtDouble(sum1), SqrtDouble(sum2))))
    ELSE exact

\* a slip: the denominator is the squared norm of the first vector
FloatDivFirstNorm(numerator, sum1, sum2) ==
    IF sum1 * sum2 = 0 THEN Raise("float division by zero")
    ELSE Ok(SqFrac(numerator * numerator, sum1 * sum1))

FloatDiv(numerator, sum1, sum2) ==
    IF sum1 * sum2 = 0 THEN Raise("float division by zero")
    ELSE Ok(FloatDivExact(numerator, sum1, sum2,
                          SqFrac(numerator * numerator, sum1 * sum2)))

\* a slip: the numerator counts the shared tokens instead of summing the
\* products of their frequencies
CosinePartsCounting(vec1, vec2) ==
    [numerator |-> Cardinality(DOMAIN vec1 \cap DOMAIN vec2),
     sum1 |-> SumOver(DOMAIN vec1, [x \in DOMAIN vec1 |-> vec1[x] * vec1[x]]),
     sum2 |-> SumOver(DOMAIN vec2, [x \in DOMAIN vec2 |-> vec2[x] * vec2[x]])]

\* the numerator and the two sums of squares of _cosine_similarity
CosineParts(vec1, vec2) ==
    LET intersection == DOMAIN vec1 \cap DOMAIN vec2
    IN  [numerator |-> SumOver(intersection, [x \in intersection |-> vec1[x] * vec2[x]]),
         sum1 |-> SumOver(DOMAIN vec1, [x \in DOMAIN vec1 |-> vec1[x] * vec1[x]]),
         sum2 |-> SumOver(DOMAIN vec2, [x \in DOMAIN vec2 |-> vec2[x] * vec2[x]])]

\* a slip: the test "if not denominator" is left out
cosine_similarity_unguarded(vec1, vec2) ==
    LET p == CosineParts(vec1, vec2)
    IN  FloatDiv(p.numerator, p.sum1, p.sum2)

\* _cosine_similarity(vec1, vec2)
cosine_similarity(vec1, vec2) ==
    LET p == CosineParts(vec1, vec2)
    IN  IF p.sum1 * p.sum2 = 0 THEN Ok(Zero)        \* if not denominator
        ELSE FloatDiv(p.numerator, p.sum1, p.sum2)

\* min(1.0, raw_sim * 1.5) of a raw similarity whose double is kept: the
\* real number is t[1]/t[2]
BoostHeld(raw_sim, t) ==
    [n |-> Rat(t[1], t[2]).n, d |-> Rat(t[1], t[2]).d,
     off |-> CmpDouble(BoostDouble(raw_sim.dbl), TieDouble(t).score),
     dbl |-> <<>>]

\* a slip: only a raw similarity above one half is kept
BoostScoreAboveHalf(raw_sim) ==
    IF NumLess(Rat(1, 2), raw_sim) THEN NumMin(One, NumScale(raw_sim, 3, 2))
    ELSE Zero

\* score = min(1.0, raw_sim * 1.5) if raw_sim > 0 else 0.0
BoostScore(raw_sim) ==
    IF ~NumLess(Zero, raw_sim) THEN Zero
    ELSE IF raw_sim.dbl = <<>> THEN NumMin(One, NumScale(raw_sim, 3, 2))
    ELSE BoostHeld(raw_sim,
                   CHOOSE t \in TiePoints :
                       Rat(2 * t[1], 3 * t[2]).n * raw_sim.d
                           = Rat(2 * t[1], 3 * t[2]).d * raw_sim.n)

OperationalMessage(entry) ==
    "Operational Gap: Code uses '" \o entry.trigger
        \o "' but docs don't mention " \o entry.synonyms[1] \o "."

\* a slip: the trigger itself in the doc is not accepted as a mention
TriggerFoundSynonymsOnly(entry, doc_str) ==
    \E j \in DOMAIN entry.synonyms : Contains(doc_str, entry.synonyms[j])

\* found = any(s in doc_str for s in synonyms) or (trigger in doc_str)
TriggerFound(entry, doc_str) ==
    \/ \E j \in DOMAIN entry.synonyms : Contains(doc_str, entry.synonyms[j])
    \/ Contains(doc_str, entry.trigger)

\* the loop over operational_map.items(): one message per trigger found in
\* the lowercased code and matched in the lowercased doc neither by itself
\* nor by one of its synonyms, in table order
RECURSIVE OperationalGaps(_, _, _)
OperationalGaps(code_str, doc_str, k) ==
    IF k > Len(operational_map) THEN <<>>
    ELSE LET entry == operational_map[k]
             found == TriggerFound(entry, doc_str)
             here == IF Contains(code_str, entry.trigger) /\ ~found
                     THEN <<OperationalMessage(entry)>> ELSE <<>>
         IN  here \o OperationalGaps(code_str, doc_str, k + 1)

VocabularyMessage ==
    "Improve vocabulary alignment between code identifiers and docstrings."

\* the dict returned for blank input (text is "Input missing.") and by the
\* except branch (text is str(e))
SentinelReport(text) ==
    [score |-> Zero, common_words |-> <<>>, missing_in_code |-> <<>>,
     missing_in_doc |-> <<>>, suggestions |-> <<text>>]

\* a slip: only the first text is tested
InputMissingFirstOnly(text1, text2) == IsBlank(text1)

\* not text1.strip() or not text2.strip()
InputMissing(text1, text2) == IsBlank(text1) \/ IsBlank(text2)

\* a slip: the generic suggestion is put before the operational gaps
similarity_report_generic_first(score, common, missing_in_code, missing_in_doc, operational) ==
    [score |-> score,
     common_words |-> SortedSeq(common),
     missing_in_code |-> SortedSeq(missing_in_code),
     missing_in_doc |-> SortedSeq(missing_in_doc),
     suggestions |-> (IF NumLess(score, Rat(1, 2)) THEN <<VocabularyMessage>>
                      ELSE <<>>) \o operational]

\* lines 80-99: the suggestions and the dict returned
similarity_report(score, common, missing_in_code, missing_in_doc, operational) ==
    [score |-> score,
     common_words |-> SortedSeq(common),
     missing_in_code |-> SortedSeq(missing_in_code),
     missing_in_doc |-> SortedSeq(missing_in_doc),
     suggestions |-> operational \o
                     (IF NumLess(score, Rat(1, 2)) THEN <<VocabularyMessage>>
                      ELSE <<>>)]

\* lines 69-101, from what _cosine_similarity returned or raised
similarity_scored(raw_sim, code_words, doc_words, code_str, doc_str) ==
    IF IsExc(raw_sim) THEN SentinelReport(raw_sim.exc)      \* except
    ELSE similarity_report(BoostScore(raw_sim.ok),
                           code_words \cap doc_words,
                           doc_words \ code_words,
                           code_words \ doc_words,
                           OperationalGaps(code_str, doc_str, 1))

\* lines 66-101, from the two frequency vectors
similarity_of(vec1, vec2, code_str, doc_str) ==
    similarity_scored(cosine_similarity(vec1, vec2),
                      DOMAIN vec1, DOMAIN vec2, code_str, doc_str)

\* StatisticalAnalyzer.compute_similarity(text1, text2)
compute_similarity(text1, text2) ==
    IF InputMissing(text1, text2) THEN SentinelReport("Input missing.")
    ELSE similarity_of(Counter(preprocess(text1)), Counter(preprocess(text2)),
                       Lower(text1), Lower(text2))

\* a slip: the two middle bands carry each other's label
MatchLabelSwapped(sim_score) ==
    IF NumLess(Rat(85, 100), sim_score) THEN "Production Quality"
    ELSE IF NumLess(Rat(65, 100), sim_score) THEN "Partial Alignment"
    ELSE IF NumLess(Rat(40, 100), sim_score) THEN "High Alignment"
    ELSE "Poor Alignment"

\* the if/elif chain of symmetric_analysis
MatchLabel(sim_score) ==
    IF NumLess(Rat(85, 100), sim_score) THEN "Production Quality"
    ELSE IF NumLess(Rat(65, 100), sim_score) THEN "High Alignment"
    ELSE IF NumLess(Rat(40, 100), sim_score) THEN "Partial Alignment"
    ELSE "Poor Alignment"

\* lines 104-149 of symmetric_analysis, from the dict of compute_similarity
symmetric_report(analysis, missing_code, missing_docs, operational) ==
    [forward_match |-> analysis.score,
     backward_match |-> analysis.score,
     symmetric_score |-> analysis.score,
     match_label |-> MatchLabel(analysis.score),
     common_terms |-> Len(analysis.common_words),
     issue_summary |->
        [total_issues |-> Len(missing_code) + Len(missing_docs) + Len(operational),
         missing_in_docs |-> Len(missing_code),
         zombie_docs |-> Len(missing_docs),
         logic_gaps |-> Len(operational)],
     quick_fixes |-> <<>>,
     visual_data |-> <<Len(analysis.common_words), Len(missing_code),
                       Len(missing_docs)>>,
     details |-> analysis]

\* the issues dict of lines 107-111
symmetric_issues(analysis) ==
    symmetric_report(analysis, analysis.missing_in_doc, analysis.missing_in_code,
                     SelectSeq(analysis.suggestions,
                               LAMBDA m : Contains(m, "Operational")))

\* StatisticalAnalyzer.symmetric_analysis(code_text, doc_text)
symmetric_analysis(code_text, doc_text) ==
    symmetric_issues(compute_similarity(code_text, doc_text))

\* ------------------------------------------------------------------------
\* Regular-expression scans of src/index.py and src/api/index.py, each
\* written as the left-to-right, non-overlapping scan re.findall performs.
\* ------------------------------------------------------------------------
\* [A-Za-z_]
IsIdentStart(c) == c \in LowerSet \cup UpperSet \cup {"_"}

\* kw\s+([A-Za-z_]\w*) tried at position i: <<>> when it does not match,
\* else <<first index of the name, index after the name>>
KeywordMatchAt(s, i, kw) ==
    IF ~StartsAt(s, i, kw) THEN <<>>
    ELSE LET a == i + Len(kw)
             b == RunEnd(s, a, "space")
         IN  IF b > a /\ b <= Len(s) /\ IsIdentStart(CharAt(s, b))
             THEN <<b, RunEnd(s, b, "word")>>
             ELSE <<>>

IsQuote(c) == c = "'" \/ c = "\""

\* (['\"]?[\w-]+['\"]?)\s*: tried at position i: <<>> when it does not
\* match, else <<index after the group, index after the colon>>
KeyMatchAt(s, i) ==
    LET a == IF i <= Len(s) /\ IsQuote(CharAt(s, i)) THEN i + 1 ELSE i
        b == RunEnd(s, a, "wordhyphen")
        c == IF b <= Len(s) /\ IsQuote(CharAt(s, b)) THEN b + 1 ELSE b
        d == RunEnd(s, c, "space")
    IN  IF b > a /\ d <= Len(s) /\ CharAt(s, d) = ":"
        THEN <<c, d + 1>> ELSE <<>>

RECURSIVE FindKeys(_, _)
\* re.findall(r"(['\"]?[\w-]+['\"]?)\s*:", s) from position i, as a set
FindKeys(s, i) ==
    IF i > Len(s) THEN {}
    ELSE LET m == KeyMatchAt(s, i)
         IN  IF m = <<>> THEN FindKeys(s, i + 1)
             ELSE {SubSeq(s, i, m[1] - 1)} \cup FindKeys(s, m[2])

RECURSIVE StripQuotes(_)
\* l.strip("'\"")
StripQuotes(l) ==
    IF l = "" THEN ""
    ELSE IF IsQuote(CharAt(l, 1)) THEN StripQuotes(SubSeq(l, 2, Len(l)))
    ELSE IF IsQuote(CharAt(l, Len(l))) THEN StripQuotes(SubSeq(l, 1, Len(l) - 1))
    ELSE l

\* length of the comment opener (#, //, /*, triple quote) at i, 0 if none
OpenerAt(s, i) ==
    IF StartsAt(s, i, "#") THEN 1
    ELSE IF StartsAt(s, i, "//") \/ StartsAt(s, i, "/" \o "*") THEN 2
    ELSE IF StartsAt(s, i, "'''") \/ StartsAt(s, i, "\"\"\"") THEN 3
    ELSE 0

\* length of the comment closer (*/, triple quote, newline) at j, 0 if none
CloserAt(s, j) ==
    IF StartsAt(s, j, "*" \o "/") THEN 2
    ELSE IF StartsAt(s, j, "'''") \/ StartsAt(s, j, "\"\"\"") THEN 3
    ELSE IF StartsAt(s, j, "\n") THEN 1
    ELSE 0

RECURSIVE CloserPos(_, _)
\* the lazy (.*?) with DOTALL: first j >= a where a closer or the end is
CloserPos(s, a) ==
    IF a > Len(s) \/ CloserAt(s, a) > 0 THEN a ELSE CloserPos(s, a + 1)

RECURSIVE FindComments(_, _)
\* re.findall(r"(?:#|//|/\*|'''|\"\"\")(.*?)(?:\*/|'''|\"\"\"|\n|$)", s,
\* re.DOTALL) from position i, in order
FindComments(s, i) ==
    IF i > Len(s) THEN <<>>
    ELSE LET o == OpenerAt(s, i)
         IN  IF o = 0 THEN FindComments(s, i + 1)
             ELSE LET j == CloserPos(s, i + o)
                  IN  <<SubSeq(s, i + o, j - 1)>>
                      \o FindComments(s, j + CloserAt(s, j))

RECURSIVE JoinWithSpace(_)
\* " ".join(parts)
JoinWithSpace(parts) ==
    IF parts = <<>> THEN ""
    ELSE IF Len(parts) = 1 THEN parts[1]
    ELSE parts[1] \o " " \o JoinWithSpace(Tail(parts))

\* a slip: the comments of the code are left out of the pool
DocPoolDocOnly(code_text, doc_text) == Lower(doc_text \o " ")

\* (doc_text + " " + comments).lower()
DocPool(code_text, doc_text) ==
    Lower(doc_text \o " " \o JoinWithSpace(FindComments(code_text, 1)))

RECURSIVE DoubleMod(_, _, _)
\* (r * 2^times) mod n
DoubleMod(r, n, times) ==
    IF times = 0 THEN r % n ELSE DoubleMod((2 * r) % n, n, times - 1)

RECURSIVE Doublings(_, _, _)
\* the least t' >= t with k * 2^t' >= n  (0 < k)
Doublings(k, n, t) ==
    IF k >= n THEN t ELSE Doublings(2 * k, n, t + 1)

RECURSIVE Log2Ceil(_, _, _)
\* the least e' >= e with v <= p * 2^(e' - e)  (p = 2^e)
Log2Ceil(v, p, e) ==
    IF v <= p THEN e ELSE Log2Ceil(v, 2 * p, e + 1)

RECURSIVE Pow2(_)
\* 2^e
Pow2(e) == IF e = 0 THEN 1 ELSE 2 * Pow2(e - 1)

\* the double synced / found was rounded down by r / (found * 2^(52 + t)),
\* and its product with 100.0 rounds below the integer v = 100 * synced /
\* found: the remainder r exceeds half a unit in the last place of the
\* doubles below v
ShortfallAt(r, found, v, t) ==
    /\ 2 * r < found
    /\ 200 * r > found * Pow2(Log2Ceil(v, 1, 0) + t - 1)

\* (synced / found) * 100 in IEEE double arithmetic is below the integer
\* 100 * synced / found, so that int() gives one less
FloatShortfall(synced, found) ==
    /\ 0 < synced
    /\ synced < found
    /\ (100 * synced) % found = 0
    /\ ShortfallAt(DoubleMod(synced, found, 52 + Doublings(2 * synced, found, 1)),
                   found, (100 * synced) \div found,
                   Doublings(2 * synced, found, 1))

\* a slip: the percentage of the entities that are missing
IntPercentMissing(synced, found) ==
    IF found = 0 THEN Raise("division by zero")
    ELSE Ok(((found - synced) * 100) \div found)

\* int((synced / found) * 100): the floor of 100 * synced / found, less one
\* where the float product falls short of the integer quotient
IntPercent(synced, found) ==
    IF found = 0 THEN Raise("division by zero")
    ELSE Ok((synced * 100) \div found
            - (IF FloatShortfall(synced, found) THEN 1 ELSE 0))

\* the orders in which iterating the set S can yield its elements
Orderings(S) ==
    {q \in [1..Cardinality(S) -> S] : \A x \in S : \E k \in DOMAIN q : q[k] = x}

\* list(...)[:k]
Prefix(q, k) == SubSeq(q, 1, IF Len(q) < k THEN Len(q) ELSE k)

\* [f"{before}{m}{after}" for m in q]
Messages(q, before, after) == [k \in DOMAIN q |-> before \o q[k] \o after]

\* ------------------------------------------------------------------------
\* src/index.py : EnterpriseDocSyncEngine
\* ------------------------------------------------------------------------
\* the match at position i of the first alternative of kws that matches
\* there, <<>> if none does
KeywordHitAt(s, i, kws, hits) ==
    IF hits = {} THEN <<>>
    ELSE KeywordMatchAt(s, i, kws[CHOOSE h \in hits : \A g \in hits : h <= g])

RECURSIVE FindKeywords(_, _, _)
\* findall goes on after the match m found at position i, or at i + 1
FindKeywordsAfter(s, i, kws, m) ==
    IF m = <<>> THEN FindKeywords(s, i + 1, kws)
    ELSE {SubSeq(s, m[1], m[2] - 1)} \cup FindKeywords(s, m[2], kws)

\* re.findall(r"(?:kw1|kw2|...)\s+([A-Za-z_]\w*)", s) from position i
FindKeywords(s, i, kws) ==
    IF i > Len(s) THEN {}
    ELSE FindKeywordsAfter(s, i, kws,
            KeywordHitAt(s, i, kws,
                {k \in DOMAIN kws : KeywordMatchAt(s, i, kws[k]) # <<>>}))

\* the four patterns of self.patterns["logic"], united, then
\* {l.strip("'\"") for l in found_logic if len(l) > 2}
found_logic(code_text) ==
    LET all == FindKeywords(code_text, 1, <<"def">>)
               \cup FindKeywords(code_text, 1, <<"function">>)
               \cup FindKeywords(code_text, 1, <<"class">>)
               \cup FindKeys(code_text, 1)
    IN  {StripQuotes(l) : l \in {m \in all : Len(m) > 2}}

\* {l for l in found if l.lower() in pool}
SyncedIn(found, pool) == {l \in found : Contains(pool, Lower(l))}

\* _empty_result()
empty_result ==
    [score |-> 0, label |-> "No Logic", summary |-> "Empty scan.",
     detailed_issue |-> "None",
     stats |-> [total_issues |-> 1, synced_terms |-> 0,
                breakdown |-> [Terminology |-> 0, Logic |-> 100]],
     suggestions |-> <<>>, visual |-> <<0, 10, 0>>]

\* the conditional expression that picks the label of perform_audit
AuditLabel(score) ==
    IF score > 70 THEN "Accurate Alignment"
    ELSE IF score > 30 THEN "Partial Mismatch"
    ELSE "Critical Mismatch"

\* the entities perform_audit reports as missing
perform_audit_missing(code_text, doc_text) ==
    found_logic(code_text)
        \ SyncedIn(found_logic(code_text), DocPool(code_text, doc_text))

\* the dict of lines 56-68
audit_dict(score, found, synced, missing, order) ==
    [score |-> score,
     label |-> AuditLabel(score),
     summary |-> "Audit of " \o ToString(Cardinality(found))
                  \o " elements complete.",
     detailed_issue |-> "Identified " \o ToString(Cardinality(missing))
                  \o " logic gaps and " \o ToString(Cardinality(synced))
                  \o " synced segments.",
     stats |-> [total_issues |-> Cardinality(missing),
                synced_terms |-> Cardinality(synced),
                breakdown |-> [Terminology |-> 100 - score,
                               Logic |-> Cardinality(missing) * 5]],
     suggestions |-> Messages(Prefix(order, 3), "Add documentation for '", "'"),
     visual |-> <<Cardinality(synced), Cardinality(missing), 2>>]

\* lines 54-68: the score, which raises when found_logic is empty, and the
\* dict
perform_audit_rated(percent, found, synced, order) ==
    IF IsExc(percent) THEN percent
    ELSE Ok(audit_dict(percent.ok, found, synced, found \ synced, order))

\* lines 53-68, from the sets found_logic and synced
perform_audit_synced(found, synced, order) ==
    perform_audit_rated(IntPercent(Cardinality(synced), Cardinality(found)),
                        found, synced, order)

\* lines 52-68 of perform_audit: what it returns once entities were found;
\* order is the order in which list(missing) yields the set missing
\* (unspecified by the language)
perform_audit_scored(found, doc_pool, order) ==
    perform_audit_synced(found, SyncedIn(found, doc_pool), order)

\* a slip: the test "if not found_logic" is left out
perform_audit_unguarded(code_text, doc_text, order) ==
    perform_audit_scored(found_logic(code_text),
                         DocPool(code_text, doc_text), order)

\* perform_audit(code_text, doc_text)
perform_audit(code_text, doc_text, order) ==
    IF found_logic(code_text) = {} THEN Ok(empty_result)
    ELSE perform_audit_scored(found_logic(code_text),
                              DocPool(code_text, doc_text), order)

\* ------------------------------------------------------------------------
\* src/api/index.py : Engine
\* ------------------------------------------------------------------------
RECURSIVE LastParenOnLine(_, _, _)
\* the greedy \(.*\) opened before position j: index of the last ")" at or
\* after j on the same line, best being the last one seen (0 if none)
LastParenOnLine(s, j, best) ==
    IF j > Len(s) \/ CharAt(s, j) = "\n" THEN best
    ELSE LastParenOnLine(s, j + 1, IF CharAt(s, j) = ")" THEN j ELSE best)

\* (?:\(.*\)|function) tried at position g after the name matched at m:
\* <<>> or <<first index of the name, index after the name, index after
\* the match>>
AssignValueAt(s, m, g, h) ==
    IF h > 0 THEN <<m[1], m[2], h + 1>>
    ELSE IF StartsAt(s, g, "function")
         THEN <<m[1], m[2], g + Len("function")>>
         ELSE <<>>

\* \s*(?:\(.*\)|function) tried at position e, after the = sign
AssignAfterEquals(s, m, g) ==
    AssignValueAt(s, m, g,
                  IF g <= Len(s) /\ CharAt(s, g) = "("
                  THEN LastParenOnLine(s, g + 1, 0) ELSE 0)

\* \s*=\s*(?:\(.*\)|function) tried at position f, the first non-space
\* after the name matched at m
AssignAfterName(s, m, f) ==
    IF ~(f <= Len(s) /\ CharAt(s, f) = "=") THEN <<>>
    ELSE AssignAfterEquals(s, m, RunEnd(s, f + 1, "space"))

\* the rest of the pattern after kw\s+([A-Za-z_]\w*) matched (or not) as m
AssignAfterKeyword(s, m) ==
    IF m = <<>> THEN <<>>
    ELSE AssignAfterName(s, m, RunEnd(s, m[2], "space"))

\* kw\s+([A-Za-z_]\w*)\s*=\s*(?:\(.*\)|function) tried at position i:
\* <<>> or <<first index of the name, index after the name, index after
\* the match>>
AssignMatchAt(s, i, kw) == AssignAfterKeyword(s, KeywordMatchAt(s, i, kw))

\* the match at position i of the first alternative of kws that matches
\* there, <<>> if none does
AssignHitAt(s, i, kws, hits) ==
    IF hits = {} THEN <<>>
    ELSE AssignMatchAt(s, i, kws[CHOOSE h \in hits : \A g \in hits : h <= g])

RECURSIVE FindAssigned(_, _, _)
\* findall goes on after the match m found at position i, or at i + 1
FindAssignedAfter(s, i, kws, m) ==
    IF m = <<>> THEN FindAssigned(s, i + 1, kws)
    ELSE {SubSeq(s, m[1], m[2] - 1)} \cup FindAssigned(s, m[3], kws)

\* re.findall(r"(?:const|let|var)\s+([A-Za-z_]\w*)\s*=\s*(?:\(.*\)|function)", s)
FindAssigned(s, i, kws) ==
    IF i > Len(s) THEN {}
    ELSE FindAssignedAfter(s, i, kws,
            AssignHitAt(s, i, kws,
                {k \in DOMAIN kws : AssignMatchAt(s, i, kws[k]) # <<>>}))

\* found = {f for f in found if len(f) > 2}
audit_found(c) ==
    {f \in FindKeywords(c, 1, <<"def", "function", "class">>)
           \cup FindAssigned(c, 1, <<"const", "let", "var">>) : Len(f) > 2}

\* length of the code and doc previews
SnippetLen == 800

\* c[:800] + "..." if len(c) > 800 else c
Snippet(c) ==
    IF Len(c) > SnippetLen THEN SubSeq(c, 1, SnippetLen) \o "..." ELSE c

\* missing = found - synced
audit_missing(c, d) ==
    audit_found(c) \ SyncedIn(audit_found(c), DocPool(c, d))

\* the dict returned when nothing was found
audit_empty(c_prev, d_prev) ==
    [score |-> 0, label |-> "No Logic Found",
     stats |-> [issues |-> 0, synced |-> 0],
     detail |-> "Empty project input.", visual |-> <<0, 1>>,
     detailed_issues |-> <<"Critical: Analysis empty.">>,
     code_snippet |-> c_prev, doc_snippet |-> d_prev]

\* the dict returned for the score and the sets of lines 399-401
audit_report(score, found, synced, missing, c_prev, d_prev, order) ==
    [score |-> score,
     label |-> IF score > 75 THEN "Accurate Alignment" ELSE "Partial Mismatch",
     stats |-> [issues |-> Cardinality(missing), synced |-> Cardinality(synced)],
     detail |-> "Identified " \o ToString(Cardinality(found))
                 \o " logic units. " \o ToString(Cardinality(missing))
                 \o " are undocumented.",
     visual |-> <<Cardinality(synced), Cardinality(missing)>>,
     detailed_issues |-> Messages(Prefix(order, 10),
                                  "Documentation missing for '", "'"),
     code_snippet |-> c_prev, doc_snippet |-> d_prev]

\* lines 401-411: the score, which raises when found is empty, and the dict
audit_rated(percent, found, synced, c_prev, d_prev, order) ==
    IF IsExc(percent) THEN percent
    ELSE Ok(audit_report(percent.ok, found, synced, found \ synced,
                         c_prev, d_prev, order))

\* lines 393-411, from the set found and the set synced
audit_scored(found, synced, c_prev, d_prev, order) ==
    IF found = {} THEN Ok(audit_empty(c_prev, d_prev))
    ELSE audit_rated(IntPercent(Cardinality(synced), Cardinality(found)),
                     found, synced, c_prev, d_prev, order)

\* lines 388-411, from the set found
audit_pooled(found, pool, c_prev, d_prev, order) ==
    audit_scored(found, SyncedIn(found, pool), c_prev, d_prev, order)

\* Engine.audit(c, d); order is the order in which list(missing) yields
\* the set missing
audit(c, d, order) ==
    audit_pooled(audit_found(c), DocPool(c, d), Snippet(c), Snippet(d), order)

\* ------------------------------------------------------------------------
\* src/src/ml/similarity_checker.py : SimilarityChecker
\* ------------------------------------------------------------------------
\* SimilarityChecker.preprocess(text)
sk_preprocess(text) ==
    IF text = "" THEN ""
    ELSE ReplaceWithSpace(ReplaceWithSpace(Lower(text), {"_"}),
                          CharSet("()[]{}:;.,="))

\* the words of the vectorizer's stop_words='english' list that the texts
\* of this model can contain
english_stop_words ==
    {"the", "is", "are", "to", "of", "for", "in", "with", "it", "and",
     "from", "into", "that", "which", "who", "this", "an", "as", "at", "by",
     "be", "been", "can", "could", "do", "has", "have", "had", "will",
     "would", "should", "may", "might", "must", "or", "but", "so", "than",
     "while", "then", "else", "once", "again", "about", "above", "below",
     "under", "over", "get", "not", "no", "if", "on", "we", "he"}

RECURSIVE WordTokens(_, _)
\* the analyzer of TfidfVectorizer(token_pattern=r"(?u)\b\w[\w]+\b"):
\* the runs of two or more word characters of s from position i, in order
WordTokens(s, i) ==
    IF i > Len(s) THEN <<>>
    ELSE IF ~IsWordChar(CharAt(s, i)) THEN WordTokens(s, i + 1)
    ELSE LET e == RunEnd(s, i, "word")
         IN  (IF e - i >= 2 THEN <<SubSeq(s, i, e - 1)>> ELSE <<>>)
             \o WordTokens(s, e)

\* the tokens the vectorizer counts in one document, in order
sk_tokens(clean) ==
    SelectSeq(WordTokens(Lower(clean), 1), LAMBDA t : t \notin english_stop_words)

\* the terms the vectorizer counts in one document
sk_terms(clean) == Range(sk_tokens(clean))

\* vectorizer.fit_transform([clean_code, clean_doc]): the fitted feature
\* names (sorted vocabulary) and the matrix of two rows, one entry per
\* feature name; ValueError when the vocabulary is empty.  An entry of the
\* tf-idf matrix is kept as the number of occurrences of the term in the
\* document: its weight is that number times the idf of the term, over
\* the norm of the row (term_weight)
fit_transform(clean_code, clean_doc) ==
    LET names == SortedSeq(sk_terms(clean_code) \cup sk_terms(clean_doc))
        Row(tokens) ==
            SubSeq([i \in DOMAIN names |->
                       Cardinality({j \in DOMAIN tokens : tokens[j] = names[i]})],
                   1, Len(names))
    IN  IF names = <<>>
        THEN Raise("empty vocabulary; perhaps the documents only contain stop words")
        ELSE Ok([feature_names |-> names,
                 matrix |-> <<Row(sk_tokens(clean_code)), Row(sk_tokens(clean_doc))>>])

\* row.nonzero()[1]: the indices of the non-zero entries of a row
nonzero(row) == {i \in DOMAIN row : row[i] > 0}

\* round(score, 4) = 0.0 for score the cosine of the two rows of a tf-idf
\* matrix (cosine_similarity of lines 67-68).  With the defaults of
\* TfidfVectorizer the idf of a term is ln((1 + n) / (1 + df)) + 1 for n = 2
\* documents: 1 for a term of both rows, 1 + ln(3/2) for a term of one row.
\* So the cosine is
\*     dot / sqrt((code_both + k * code_only) * (doc_both + k * doc_only))
\* where dot sums the products of the counts of the terms of both rows, the
\* other four sum the squares of the counts of one row over the terms of
\* both rows and over the terms of that row only, and k = (1 + ln(3/2))^2
\* = 1.9753321701094941...  The result of round is 0.0 when the cosine is
\* below 0.00005, that is when
\*     (20000 * dot)^2 < (code_both + k * code_only) * (doc_both + k * doc_only)
\* which is computed in natural numbers of base-2^15 digits with
\* 1975332170 / 10^9 for k (k lies between that and 1975332171 / 10^9; the
\* two fractions decide alike unless the cosine is within one part in 10^9
\* of 0.00005).  The sums of squares are below 2^31.
score_rounds_to_zero(matrix) ==
    LET both == nonzero(matrix[1]) \cap nonzero(matrix[2])
        Squares(row, set) == SumOver(set, [i \in set |-> row[i] * row[i]])
        dot == SumOver(both, [i \in both |-> matrix[1][i] * matrix[2][i]])
        scale == Digits(1000000000)
        k == Digits(1975332170)
        Norm(row) ==
            Add(Mul(scale, Digits(Squares(row, both))),
                Mul(k, Digits(Squares(row, nonzero(row) \ both))))
        scaled_dot == Mul(Mul(Digits(20000), scale), Digits(dot))
    IN  IF dot = 0 THEN TRUE
        ELSE Cmp(Mul(scaled_dot, scaled_dot),
                 Mul(Norm(matrix[1]), Norm(matrix[2]))) < 0

\* the dict returned for blank input
sk_missing_input ==
    [score_is_zero |-> TRUE, common_terms |-> <<>>, missing_in_code |-> <<>>,
     missing_in_doc |-> <<>>, recommendation |-> "Missing input text."]

\* the dict returned by the except ValueError branch
sk_error_result(e) ==
    [score_is_zero |-> TRUE, error |-> e,
     recommendation |-> "Unable to compute similarity (empty vocabulary)."]

\* lines 71-93 of compute_similarity: the gap analysis of the matrix this
\* call computed, read through the feature names the shared vectorizer
\* holds at that moment.  feature_names[i] with i out of range raises
\* IndexError, which the except ValueError clause does not catch.  Of
\* "score": round(score, 4) (line 88) whether it is 0.0 is kept.
gap_analysis(matrix, feature_names) ==
    IF \E i \in nonzero(matrix[1]) \cup nonzero(matrix[2]) : i > Len(feature_names)
    THEN Raise("IndexError")
    ELSE LET code_terms == {feature_names[i] : i \in nonzero(matrix[1])}
             doc_terms == {feature_names[i] : i \in nonzero(matrix[2])}
         IN  Ok([score_is_zero |-> score_rounds_to_zero(matrix),
                 common_terms |-> SortedSeq(code_terms \cap doc_terms),
                 missing_in_code |-> SortedSeq(doc_terms \ code_terms),
                 missing_in_doc |-> SortedSeq(code_terms \ doc_terms)])

\* SimilarityChecker.compute_similarity(code_text, doc_text), run alone
sk_compute_similarity(code_text, doc_text) ==
    IF IsBlank(code_text) \/ IsBlank(doc_text) THEN Ok(sk_missing_input)
    ELSE LET fit == fit_transform(sk_preprocess(code_text), sk_preprocess(doc_text))
         IN  IF IsExc(fit) THEN Ok(sk_error_result(fit.exc))
             ELSE gap_analysis(fit.ok.matrix, fit.ok.feature_names)

\* ------------------------------------------------------------------------
\* The state machine: one engine of each kind, called on a fixed input.
\* ------------------------------------------------------------------------
VARIABLES
    code,        \* the code text handed to the engines
    doc,         \* the documentation text handed to the engines
    report,      \* entry point and outcome of the latest call
    vectorizer,  \* SimilarityChecker.vectorizer: its fitted feature names
    tin,         \* concurrent calls: the (code, doc) input of each thread
    tpc,         \* concurrent calls: position of each thread in the call
    tmatrix,     \* concurrent calls: the tfidf_matrix local of each thread
    tout,        \* concurrent calls: the outcome of each thread
    bands,       \* label checks: two scores and the labels they were given
    pipe,        \* CraftAIPipeline.run: position, files written, git repository
    scan,        \* extract_documented_items: lines read and locals of the loop
    hist         \* dashboard: the history list and its localStorage copy

vars ==
    <<code, doc, report, vectorizer, tin, tpc, tmatrix, tout, bands, pipe,
      scan, hist>>

\* the values of pipe, scan and hist in the specifications that do not run
\* the pipeline, the markdown parser or the dashboard
NoPipe == [pc |-> "idle"]
NoScan == [pc |-> "idle"]
NoHist == [pc |-> "idle"]

\* fragments the code texts are made of
Lexicon == {"def dist(x):\n", "class Log:\n", "# the metric\n", "the "}

\* code texts with a quoted key and a comment naming an entity, one with an
\* underscore and capital letters in a name, and two blank texts, the second
\* of them a vertical tab and a file separator (\x0b, \x1c)
KeyedTexts ==
    {"'id': 1  # dist\n", "def dist(x):\n'id': 1  # dist\n", "def get_Dist(x):\n",
     " ", ""}

\* the documentation texts; the second is blank: newline, space, \x1f
DocSamples ==
    {"", "\n ", "the ", "dist path ", "The metric.", "log of dist ",
     "class Log:\n", "def dist path "}

RECURSIVE Concatenations(_)
\* the texts made of at most k fragments
Concatenations(k) ==
    IF k = 0 THEN {""}
    ELSE {""} \cup {p \o t : p \in Lexicon, t \in Concatenations(k - 1)}

\* the code texts
Texts == Concatenations(MaxPieces) \cup KeyedTexts

Threads == {1, 2}

NoReport == [op |-> "none"]

NoBands == [kind |-> "none"]

\* the calls of SpecConc take their inputs among the single fragments
ConcTexts ==
    {"", "def dist(x):\n", "class Log:\n", "# the metric\n", "the ", " ",
     "dist path "}

Init ==
    /\ code \in Texts
    /\ doc \in DocSamples \cup {code}      \* code = doc: analyze(x, x)
    /\ report = NoReport
    /\ vectorizer = <<>>
    /\ tin = [t \in Threads |-> <<"", "">>]
    /\ tpc = [t \in Threads |-> "idle"]
    /\ tmatrix = [t \in Threads |-> <<<<>>, <<>>>>]
    /\ tout = [t \in Threads |-> NoReport]
    /\ pipe = NoPipe
    /\ scan = NoScan
    /\ hist = NoHist
    /\ bands = NoBands

\* analyzer.compute_similarity(code, doc)
CallComputeSimilarity ==
    /\ report' = [op |-> "compute_similarity",
                  out |-> Ok(compute_similarity(code, doc))]
    /\ UNCHANGED <<pipe, scan, hist, code, doc, vectorizer, tin, tpc, tmatrix, tout, bands>>

\* symmetric_analysis(code, doc): a fresh StatisticalAnalyzer per call
CallSymmetricAnalysis ==
    /\ report' = [op |-> "symmetric_analysis",
                  out |-> Ok(symmetric_analysis(code, doc))]
    /\ UNCHANGED <<pipe, scan, hist, code, doc, vectorizer, tin, tpc, tmatrix, tout, bands>>

\* EnterpriseDocSyncEngine().perform_audit(code, doc)
CallPerformAudit ==
    /\ \E order \in Orderings(perform_audit_missing(code, doc)) :
          report' = [op |-> "perform_audit",
                     out |-> perform_audit(code, doc, order)]
    /\ UNCHANGED <<pipe, scan, hist, code, doc, vectorizer, tin, tpc, tmatrix, tout, bands>>

\* engine.audit(code, doc)
CallAudit ==
    /\ \E order \in Orderings(audit_missing(code, doc)) :
          report' = [op |-> "audit", out |-> audit(code, doc, order)]
    /\ UNCHANGED <<pipe, scan, hist, code, doc, vectorizer, tin, tpc, tmatrix, tout, bands>>

\* SimilarityChecker.compute_similarity(code, doc), no other call running
CallSimilarityChecker ==
    /\ report' = [op |-> "sk_compute_similarity",
                  out |-> sk_compute_similarity(code, doc)]
    /\ vectorizer' =
          IF IsBlank(code) \/ IsBlank(doc) THEN vectorizer
          ELSE LET fit == fit_transform(sk_preprocess(code), sk_preprocess(doc))
               IN  IF IsExc(fit) THEN vectorizer ELSE fit.ok.feature_names
    /\ UNCHANGED <<pipe, scan, hist, code, doc, tin, tpc, tmatrix, tout, bands>>

Next ==
    \/ CallComputeSimilarity
    \/ CallSymmetricAnalysis
    \/ CallPerformAudit
    \/ CallAudit
    \/ CallSimilarityChecker

Spec == Init /\ [][Next]_vars

\* ------------------------------------------------------------------------
\* Two calls of SimilarityChecker.compute_similarity on one shared instance,
\* interleaved at the two accesses to self.vectorizer.
\* ------------------------------------------------------------------------
ConcInit ==
    /\ code = ""
    /\ doc = ""
    /\ report = NoReport
    /\ vectorizer = <<>>
    /\ tin \in [Threads -> ConcTexts \X ConcTexts]
    /\ tpc = [t \in Threads |-> "start"]
    /\ tmatrix = [t \in Threads |-> <<<<>>, <<>>>>]
    /\ tout = [t \in Threads |-> NoReport]
    /\ pipe = NoPipe
    /\ scan = NoScan
    /\ hist = NoHist
    /\ bands = NoBands

\* lines 48-63: the blank test, preprocess and vectorizer.fit_transform
Fit(t) ==
    /\ tpc[t] = "start"
    /\ LET c == tin[t][1]
           d == tin[t][2]
           fit == fit_transform(sk_preprocess(c), sk_preprocess(d))
       IN  IF IsBlank(c) \/ IsBlank(d)
           THEN /\ tout' = [tout EXCEPT ![t] = Ok(sk_missing_input)]
                /\ tpc' = [tpc EXCEPT ![t] = "done"]
                /\ UNCHANGED <<vectorizer, tmatrix>>
           ELSE IF IsExc(fit)
           THEN /\ tout' = [tout EXCEPT ![t] = Ok(sk_error_result(fit.exc))]
                /\ tpc' = [tpc EXCEPT ![t] = "done"]
                /\ UNCHANGED <<vectorizer, tmatrix>>
           ELSE /\ vectorizer' = fit.ok.feature_names
                /\ tmatrix' = [tmatrix EXCEPT ![t] = fit.ok.matrix]
                /\ tpc' = [tpc EXCEPT ![t] = "fitted"]
                /\ UNCHANGED tout
    /\ UNCHANGED <<pipe, scan, hist, code, doc, report, tin, bands>>

\* lines 71-93: vectorizer.get_feature_names_out() and the gap analysis
Analyse(t) ==
    /\ tpc[t] = "fitted"
    /\ tout' = [tout EXCEPT ![t] = gap_analysis(tmatrix[t], vectorizer)]
    /\ tpc' = [tpc EXCEPT ![t] = "done"]
    /\ UNCHANGED <<pipe, scan, hist, code, doc, report, vectorizer, tin, tmatrix, bands>>

ConcNext == \E t \in Threads : Fit(t) \/ Analyse(t)

SpecConc == ConcInit /\ [][ConcNext]_vars


\* ------------------------------------------------------------------------
\* The label bands, applied to pairs of scores.
\* ------------------------------------------------------------------------
\* names of the entities of the audited sources
EntityNames == <<"rho", "chi", "psi", "phi", "tau", "omi", "kap">>

RECURSIVE SourceOf(_)
\* a source text defining the first n entities
SourceOf(n) ==
    IF n = 0 THEN "x = 1\n"
    ELSE SourceOf(n - 1) \o "def " \o EntityNames[n] \o "\n"

RECURSIVE ManualOf(_)
\* a documentation text naming the first k entities
ManualOf(k) ==
    IF k = 0 THEN "Manual. "
    ELSE ManualOf(k - 1) \o EntityNames[k] \o " "

\* the scores 0.00, 0.05, ..., 1.00, and three scores of compute_similarity
\* whose double is next to a constant: 0.09999999999999998,
\* 0.4999999999999999 and 0.4000000000000001
ScoreGrid ==
    {Rat(5 * k, 100) : k \in 0..20}
    \cup {BoostScore(FloatDiv(p[1], p[2], p[3]).ok) :
             p \in {<<1, 15, 15>>, <<7, 7, 63>>, <<8, 6, 150>>}}

\* score and label of perform_audit on a source of n entities and a manual
\* naming the first k entities
AuditOf(n, k) ==
    LET missing == perform_audit_missing(SourceOf(n), ManualOf(k))
        out == perform_audit(SourceOf(n), ManualOf(k), SortedSeq(missing)).ok
    IN  [entities |-> n, score |-> out.score, label |-> out.label]

\* the pairs of inputs of the label checks: two scores, or two sources with
\* the number of their entities the manual names
LabelInputs ==
    {[kind |-> "scores", a |-> s1, b |-> s2] :
        s1 \in ScoreGrid, s2 \in ScoreGrid}
    \cup
    {[kind |-> "sources", a |-> p1, b |-> p2] :
        p1 \in {[entities |-> n, named |-> k] : n, k \in 0..MaxEntities},
        p2 \in {[entities |-> n, named |-> k] : n, k \in 0..MaxEntities}}

LabelInit ==
    /\ code = ""
    /\ doc = ""
    /\ report = NoReport
    /\ vectorizer = <<>>
    /\ tin = [t \in Threads |-> <<"", "">>]
    /\ tpc = [t \in Threads |-> "idle"]
    /\ tmatrix = [t \in Threads |-> <<<<>>, <<>>>>]
    /\ tout = [t \in Threads |-> NoReport]
    /\ pipe = NoPipe
    /\ scan = NoScan
    /\ hist = NoHist
    /\ bands \in LabelInputs

\* the if/elif chain of symmetric_analysis on two scores
LabelSymmetric ==
    /\ bands.kind = "scores"
    /\ bands' = [kind |-> "symmetric_analysis",
                 a |-> [score |-> bands.a, label |-> MatchLabel(bands.a)],
                 b |-> [score |-> bands.b, label |-> MatchLabel(bands.b)]]
    /\ UNCHANGED <<pipe, scan, hist, code, doc, report, vectorizer, tin, tpc, tmatrix, tout>>

\* two audits by perform_audit
LabelAudit ==
    /\ bands.kind = "sources"
    /\ bands' = [kind |-> "perform_audit",
                 a |-> AuditOf(bands.a.entities, bands.a.named),
                 b |-> AuditOf(bands.b.entities, bands.b.named)]
    /\ UNCHANGED <<pipe, scan, hist, code, doc, report, vectorizer, tin, tpc, tmatrix, tout>>

LabelNext == LabelSymmetric \/ LabelAudit

SpecLabels == LabelInit /\ [][LabelNext]_vars


\* ------------------------------------------------------------------------
\* Properties of the reports.
\* ------------------------------------------------------------------------
\* the dict the latest call returned
Returned == report.out.ok

StatisticalOps == {"compute_similarity", "symmetric_analysis"}
EngineOps == StatisticalOps \cup {"perform_audit", "audit"}

\* the sequences a, b, c list every term of V exactly once
PartitionOf(a, b, c, V) ==
    /\ Range(a) \cup Range(b) \cup Range(c) = V
    /\ Range(a) \cap Range(b) = {}
    /\ Range(a) \cap Range(c) = {}
    /\ Range(b) \cap Range(c) = {}
    /\ Len(a) + Len(b) + Len(c) = Cardinality(V)

\* C1: for non-blank code and doc, the three gap sets returned by
\* StatisticalAnalyzer.compute_similarity and by
\* SimilarityChecker.compute_similarity are pairwise disjoint and list every
\* term of the two vocabularies exactly once.
C1_GapSetsPartition ==
    (~IsBlank(code) /\ ~IsBlank(doc)) =>
        /\ report.op = "compute_similarity" =>
              PartitionOf(Returned.common_words, Returned.missing_in_doc,
                          Returned.missing_in_code,
                          Range(preprocess(code)) \cup Range(preprocess(doc)))
        /\ report.op = "sk_compute_similarity" =>
              /\ ~IsExc(report.out)
              /\ {"common_terms", "missing_in_doc", "missing_in_code"}
                     \subseteq DOMAIN Returned
              /\ PartitionOf(Returned.common_terms, Returned.missing_in_doc,
                             Returned.missing_in_code,
                             sk_terms(sk_preprocess(code))
                                 \cup sk_terms(sk_preprocess(doc)))

\* C2: when code or doc is empty or whitespace-only, compute_similarity and
\* symmetric_analysis return a report of score 0 whose suggestions hold the
\* single entry "Input missing.".
C2_BlankInputDegenerate ==
    (IsBlank(code) \/ IsBlank(doc)) =>
        /\ report.op = "compute_similarity" =>
              /\ ~IsExc(report.out)
              /\ Returned.score = Zero
              /\ Returned.suggestions = <<"Input missing.">>
        /\ report.op = "symmetric_analysis" =>
              /\ ~IsExc(report.out)
              /\ Returned.symmetric_score = Zero
              /\ Returned.details.suggestions = <<"Input missing.">>

\* symmetric_analysis returned for a code text with tokens and a blank doc
C2_Witness ==
    /\ report.op = "symmetric_analysis"
    /\ preprocess(code) # <<>>
    /\ IsBlank(doc)
    /\ Returned.details.suggestions = <<"Input missing.">>

\* C3: a text with a non-empty token list analysed against itself scores
\* exactly 1.0 with missing_in_doc and missing_in_code empty, in
\* compute_similarity and in the symmetric_score of symmetric_analysis.
C3_IdentityScoresOne ==
    (code = doc /\ preprocess(code) # <<>>) =>
        /\ report.op = "compute_similarity" =>
              /\ Returned.score = One
              /\ Returned.missing_in_doc = <<>>
              /\ Returned.missing_in_code = <<>>
        /\ report.op = "symmetric_analysis" =>
              /\ Returned.symmetric_score = One
              /\ Returned.details.missing_in_doc = <<>>
              /\ Returned.details.missing_in_code = <<>>

\* symmetric_analysis(x, x) returned for a text in which a token occurs twice
C3_Witness ==
    /\ report.op = "symmetric_analysis"
    /\ code = doc
    /\ \E t \in DOMAIN Counter(preprocess(code)) :
          Counter(preprocess(code))[t] >= 2
    /\ Returned.symmetric_score = One

\* C4: compute_similarity, symmetric_analysis, perform_audit and audit
\* return a report carrying a score for every pair of input strings; none
\* of them raises.
C4_NeverRaises ==
    report.op \in EngineOps =>
        /\ ~IsExc(report.out)
        /\ \/ "score" \in DOMAIN Returned
           \/ "symmetric_score" \in DOMAIN Returned

\* perform_audit returned a report for the empty code text
C4_Witness ==
    /\ report.op = "perform_audit"
    /\ code = ""
    /\ ~IsExc(report.out)
    /\ "score" \in DOMAIN Returned

\* C5: when no entity is found in the code text, perform_audit and audit
\* return a report of score 0 with their fixed label and exactly one
\* suggestion.
C5_EmptyEntityReport ==
    /\ (report.op = "perform_audit" /\ found_logic(code) = {}) =>
          /\ ~IsExc(report.out)
          /\ Returned.score = 0
          /\ Returned.label = "No Logic"
          /\ Len(Returned.suggestions) = 1
    /\ (report.op = "audit" /\ audit_found(code) = {}) =>
          /\ ~IsExc(report.out)
          /\ Returned.score = 0
          /\ Returned.label = "No Logic Found"
          /\ Len(Returned.detailed_issues) = 1


\* how good a label is within its chain; "No Logic" is the label of the
\* report for a source without entities
Rank(label) ==
    CASE label = "Production Quality" -> 4
      [] label = "High Alignment" -> 3
      [] label = "Partial Alignment" -> 2
      [] label = "Poor Alignment" -> 1
      [] label = "Accurate Alignment" -> 3
      [] label = "Partial Mismatch" -> 2
      [] label = "Critical Mismatch" -> 1
      [] label = "No Logic" -> 0
      [] OTHER -> -1

\* is score x below score y, for the floats of symmetric_analysis and the
\* integers of perform_audit
ScoreBelow(kind, x, y) ==
    IF kind = "symmetric_analysis" THEN NumLess(x, y) ELSE x < y

\* the two labelled scores of bands obey the band rules
BandsOrdered ==
    /\ Rank(bands.a.label) >= 0
    /\ Rank(bands.b.label) >= 0
    /\ bands.a.score = bands.b.score => bands.a.label = bands.b.label
    /\ ScoreBelow(bands.kind, bands.a.score, bands.b.score) =>
          Rank(bands.a.label) <= Rank(bands.b.label)

\* C6 as stated: in symmetric_analysis and in perform_audit every score has
\* one label, and of two scores the lower never has the better label.
C6_OneLabelPerScore ==
    bands.kind \in {"symmetric_analysis", "perform_audit"} => BandsOrdered

\* C6: the same for the labels of symmetric_analysis and for the labels
\* perform_audit gives to sources with at least one entity; the report for a
\* source without entities carries the separate label "No Logic" at score 0.
C6_BandsMonotone ==
    /\ bands.kind = "symmetric_analysis" => BandsOrdered
    /\ (/\ bands.kind = "perform_audit"
        /\ bands.a.entities > 0
        /\ bands.b.entities > 0) => BandsOrdered

\* two scores of symmetric_analysis in different bands were labelled, and
\* so were two audits of sources with entities
C6_Witness ==
    \/ /\ bands.kind = "symmetric_analysis"
       /\ NumLess(bands.a.score, bands.b.score)
       /\ bands.a.label = "Partial Alignment"
       /\ bands.b.label = "High Alignment"
    \/ /\ bands.kind = "perform_audit"
       /\ bands.a.entities > 0
       /\ bands.a.score < bands.b.score
       /\ Rank(bands.a.label) < Rank(bands.b.label)

\* the trigger or one of its synonyms occurs in the lower-cased text
Mentions(text, entry) ==
    \/ Contains(Lower(text), entry.trigger)
    \/ \E j \in DOMAIN entry.synonyms : Contains(Lower(text), entry.synonyms[j])

\* number of entries of q equal to x
Count(q, x) == Cardinality({i \in DOMAIN q : q[i] = x})

\* compute_similarity reports one operational gap for each trigger that
\* occurs in the code and is not mentioned in the doc, and none otherwise
OneGapPerUnmetTrigger ==
    \A k \in DOMAIN operational_map :
        Count(Returned.suggestions, OperationalMessage(operational_map[k]))
            = IF /\ Contains(Lower(code), operational_map[k].trigger)
                 /\ ~Mentions(doc, operational_map[k])
              THEN 1 ELSE 0

\* C7 as stated: for any code and doc, compute_similarity emits exactly one
\* operational gap per trigger occurring in the code that neither occurs
\* itself nor has a synonym occurring in the doc, and no other gap.
C7_GapPerTrigger ==
    report.op = "compute_similarity" => OneGapPerUnmetTrigger

\* C7: the same whenever the doc text is not blank (a blank doc text yields
\* the single suggestion "Input missing." and no operational gap).
C7_GapPerTriggerNonBlank ==
    (report.op = "compute_similarity" /\ ~IsBlank(doc)) => OneGapPerUnmetTrigger

\* compute_similarity returned one gap for a trigger of the code that the
\* non-blank doc does not mention, and none for one the doc mentions
C7_Witness ==
    /\ report.op = "compute_similarity"
    /\ ~IsBlank(doc)
    /\ \E k \in DOMAIN operational_map :
          /\ Contains(Lower(code), operational_map[k].trigger)
          /\ ~Mentions(doc, operational_map[k])
          /\ Count(Returned.suggestions,
                   OperationalMessage(operational_map[k])) = 1
    /\ \E k \in DOMAIN operational_map :
          /\ Contains(Lower(code), operational_map[k].trigger)
          /\ Mentions(doc, operational_map[k])

\* C8: a call of an entry point on the input of the previous call of the
\* same entry point returns the report the previous call returned.
C8_Idempotent ==
    [][(report.op \in EngineOps /\ report'.op = report.op)
          => report' = report]_vars

\* C9: under any interleaving of two calls of
\* SimilarityChecker.compute_similarity on one instance, each call returns
\* what it returns when run alone.
C9_SameAsAlone ==
    \A t \in Threads :
        tpc[t] = "done" =>
            tout[t] = sk_compute_similarity(tin[t][1], tin[t][2])

\* C10: the score of compute_similarity and of symmetric_analysis lies in
\* [0, 1]; when the token list of the code or of the doc is empty the score
\* is 0.0 and no division error is reported.
C10_ScoreInUnitInterval ==
    LET empty_vector == preprocess(code) = <<>> \/ preprocess(doc) = <<>>
        InRange(x) == NumLeq(Zero, x) /\ NumLeq(x, One)
    IN  /\ report.op = "compute_similarity" =>
              /\ InRange(Returned.score)
              /\ empty_vector =>
                    /\ Returned.score = Zero
                    /\ "float division by zero" \notin Range(Returned.suggestions)
        /\ report.op = "symmetric_analysis" =>
              /\ InRange(Returned.symmetric_score)
              /\ empty_vector =>
                    /\ Returned.symmetric_score = Zero
                    /\ "float division by zero"
                           \notin Range(Returned.details.suggestions)

\* compute_similarity returned for non-blank texts of which one has an empty
\* token list
C10_Witness ==
    /\ report.op = "compute_similarity"
    /\ ~IsBlank(code)
    /\ ~IsBlank(doc)
    /\ preprocess(code) = <<>>
    /\ preprocess(doc) # <<>>
    /\ Returned.score = Zero


\* what _cosine_similarity returns for the token lists of code and doc
RawCosine ==
    cosine_similarity(Counter(preprocess(code)), Counter(preprocess(doc))).ok

\* the token lists of code and doc have a token in common
SharedTokens == Range(preprocess(code)) \cap Range(preprocess(doc))

\* C11: the score compute_similarity reports for non-blank texts is the raw
\* cosine similarity of the two token-frequency vectors, unscaled.
C11_ScoreIsRawCosine ==
    (report.op = "compute_similarity" /\ ~IsBlank(code) /\ ~IsBlank(doc)) =>
        Returned.score = RawCosine

\* C12: when two non-blank texts share tokens and each has a token the other
\* lacks, the score of compute_similarity lies strictly between 0 and 1.
C12_PartialMatchStrictlyInside ==
    (/\ report.op = "compute_similarity"
     /\ ~IsBlank(code) /\ ~IsBlank(doc)
     /\ SharedTokens # {}
     /\ Range(preprocess(code)) \ Range(preprocess(doc)) # {}
     /\ Range(preprocess(doc)) \ Range(preprocess(code)) # {}) =>
        /\ NumLess(Zero, Returned.score)
        /\ NumLess(Returned.score, One)


\* C13: for non-blank texts the score is 0.0 when the two token lists share
\* no token and strictly positive when they share one, in compute_similarity
\* and in the symmetric_score of symmetric_analysis.
C13_PositiveIffShared ==
    (~IsBlank(code) /\ ~IsBlank(doc)) =>
        /\ report.op = "compute_similarity" =>
              IF SharedTokens = {} THEN Returned.score = Zero
              ELSE NumLess(Zero, Returned.score)
        /\ report.op = "symmetric_analysis" =>
              IF SharedTokens = {} THEN Returned.symmetric_score = Zero
              ELSE NumLess(Zero, Returned.symmetric_score)

\* symmetric_analysis returned for texts with a common token and for which
\* the raw cosine is no more than one half
C13_Witness ==
    /\ report.op = "symmetric_analysis"
    /\ SharedTokens # {}
    /\ NumLeq(RawCosine, Rat(1, 2))
    /\ NumLess(Zero, Returned.symmetric_score)
    /\ Returned.common_terms > 0

\* C14: _cosine_similarity gives the same value for (A, B) and (B, A), and
\* compute_similarity(code, doc) reports the score of
\* compute_similarity(doc, code).
C14_CosineSymmetric ==
    report.op = "compute_similarity" =>
        /\ cosine_similarity(Counter(preprocess(code)), Counter(preprocess(doc)))
              = cosine_similarity(Counter(preprocess(doc)),
                                  Counter(preprocess(code)))
        /\ Returned.score = compute_similarity(doc, code).score

\* compute_similarity returned for texts with a common token whose vectors
\* have different norms
C14_Witness ==
    /\ report.op = "compute_similarity"
    /\ SharedTokens # {}
    /\ Len(preprocess(code)) # Len(preprocess(doc))
    /\ NumLess(Zero, Returned.score)
    /\ NumLess(Returned.score, One)


\* C15: in every report the issue count is the size of the missing-in-doc
\* set of that analysis and the synced count is the size of its common set
\* (perform_audit: stats.total_issues and stats.synced_terms; audit:
\* stats.issues and stats.synced; symmetric_analysis: the missing_in_docs
\* category and common_terms).
C15_CountsMatchSets ==
    /\ report.op = "perform_audit" =>
          /\ Returned.stats.total_issues
                = Cardinality(perform_audit_missing(code, doc))
          /\ Returned.stats.synced_terms
                = Cardinality(found_logic(code)
                                 \ perform_audit_missing(code, doc))
    /\ report.op = "audit" =>
          /\ Returned.stats.issues = Cardinality(audit_missing(code, doc))
          /\ Returned.stats.synced
                = Cardinality(audit_found(code) \ audit_missing(code, doc))
    /\ report.op = "symmetric_analysis" =>
          /\ Returned.issue_summary.missing_in_docs
                = Len(Returned.details.missing_in_doc)
          /\ Returned.common_terms = Len(Returned.details.common_words)


\* C16: in the suggestions of a report of compute_similarity (and in the
\* details of symmetric_analysis) no generic vocabulary suggestion is
\* followed by an operational-gap message.
C16_OperationalFirst ==
    LET Ordered(q) ==
            \A i \in DOMAIN q : \A j \in DOMAIN q :
                (i < j /\ q[i] = VocabularyMessage)
                    => ~Contains(q[j], "Operational Gap")
    IN  /\ report.op = "compute_similarity" => Ordered(Returned.suggestions)
        /\ report.op = "symmetric_analysis" =>
              Ordered(Returned.details.suggestions)

\* compute_similarity returned an operational gap and the generic suggestion
C16_Witness ==
    /\ report.op = "compute_similarity"
    /\ Len(Returned.suggestions) >= 2
    /\ Contains(Returned.suggestions[1], "Operational Gap")
    /\ Returned.suggestions[Len(Returned.suggestions)] = VocabularyMessage


\* ------------------------------------------------------------------------
\* The audits of a source and of the same source with one more entity,
\* against one manual.
\* ------------------------------------------------------------------------
\* the entity added to the source
ExtraEntity == "zeta"

\* the source of n entities with the definition of the extra entity added
ExtendedSourceOf(n) == SourceOf(n) \o "def " \o ExtraEntity \o "\n"

\* a manual naming the first k entities and, if documented, the extra one
ManualWith(k, documented) ==
    ManualOf(k) \o (IF documented THEN ExtraEntity \o " " ELSE "")

\* the inputs: the number of entities of the source, the number of entities
\* the manual names, and whether the manual names the extra entity
ExtensionInputs ==
    {[kind |-> "extension", entities |-> n, named |-> k, documented |-> b] :
        n \in 0..MaxEntities, k \in 0..MaxEntities, b \in BOOLEAN}

ExtensionInit ==
    /\ code = ""
    /\ doc = ""
    /\ report = NoReport
    /\ vectorizer = <<>>
    /\ tin = [t \in Threads |-> <<"", "">>]
    /\ tpc = [t \in Threads |-> "idle"]
    /\ tmatrix = [t \in Threads |-> <<<<>>, <<>>>>]
    /\ tout = [t \in Threads |-> NoReport]
    /\ pipe = NoPipe
    /\ scan = NoScan
    /\ hist = NoHist
    /\ bands \in ExtensionInputs

\* score of perform_audit(source, manual)
PerformAuditScore(source, manual) ==
    perform_audit(source, manual,
                  SortedSeq(perform_audit_missing(source, manual))).ok.score

\* score of audit(source, manual)
AuditScore(source, manual) ==
    audit(source, manual, SortedSeq(audit_missing(source, manual))).ok.score

\* perform_audit on the source and on the extended source
ExtendPerformAudit ==
    /\ bands.kind = "extension"
    /\ bands' = [kind |-> "perform_audit",
                 entities |-> bands.entities,
                 documented |-> bands.documented,
                 base |-> PerformAuditScore(SourceOf(bands.entities),
                             ManualWith(bands.named, bands.documented)),
                 extended |-> PerformAuditScore(ExtendedSourceOf(bands.entities),
                             ManualWith(bands.named, bands.documented))]
    /\ UNCHANGED <<pipe, scan, hist, code, doc, report, vectorizer, tin, tpc, tmatrix, tout>>

\* audit on the source and on the extended source
ExtendAudit ==
    /\ bands.kind = "extension"
    /\ bands' = [kind |-> "audit",
                 entities |-> bands.entities,
                 documented |-> bands.documented,
                 base |-> AuditScore(SourceOf(bands.entities),
                             ManualWith(bands.named, bands.documented)),
                 extended |-> AuditScore(ExtendedSourceOf(bands.entities),
                             ManualWith(bands.named, bands.documented))]
    /\ UNCHANGED <<pipe, scan, hist, code, doc, report, vectorizer, tin, tpc, tmatrix, tout>>

ExtensionNext == ExtendPerformAudit \/ ExtendAudit

SpecExtension == ExtensionInit /\ [][ExtensionNext]_vars

\* C17 as stated: for a fixed documentation pool the score of perform_audit
\* and of audit over the entities with one more entity is never greater
\* than the score over the entities.
C17_ExtraEntityNeverRaises ==
    bands.kind \in {"perform_audit", "audit"} => bands.extended <= bands.base

\* C17: the same when the pool does not mention the added entity.
C17_UndocumentedExtraNeverRaises ==
    (bands.kind \in {"perform_audit", "audit"} /\ ~bands.documented)
        => bands.extended <= bands.base

\* an undocumented entity added to a source with documented entities
\* lowered the score of perform_audit
C17_Witness ==
    /\ bands.kind = "perform_audit"
    /\ ~bands.documented
    /\ bands.entities > 0
    /\ bands.extended < bands.base


\* C18: every entity perform_audit and audit score is longer than two
\* characters and carries no quote character at either end.
C18_EntitiesTrimmedAndLong ==
    LET Proper(e) == /\ Len(e) > 2
                     /\ ~IsQuote(CharAt(e, 1))
                     /\ ~IsQuote(CharAt(e, Len(e)))
    IN  /\ report.op = "perform_audit" => \A e \in found_logic(code) : Proper(e)
        /\ report.op = "audit" => \A e \in audit_found(code) : Proper(e)

\* the lower-cased doc text followed by the lower-cased comments of the code
CommentedPool ==
    Lower(doc) \o " " \o Lower(JoinWithSpace(FindComments(code, 1)))

\* the entities of the set found whose lower-cased name occurs in the pool
Mentioned(found) == {e \in found : Contains(CommentedPool, Lower(e))}

\* C19: perform_audit and audit count an entity as synced exactly when its
\* lower-cased name is a substring of the lower-cased doc text and code
\* comments, and as missing otherwise; the suggestions name missing
\* entities only.
C19_SyncedIffInPool ==
    /\ (report.op = "perform_audit" /\ found_logic(code) # {}) =>
          /\ Returned.stats.synced_terms
                = Cardinality(Mentioned(found_logic(code)))
          /\ Returned.stats.total_issues
                = Cardinality(found_logic(code) \ Mentioned(found_logic(code)))
          /\ Range(Returned.suggestions) \subseteq
                {"Add documentation for '" \o e \o "'" :
                    e \in found_logic(code) \ Mentioned(found_logic(code))}
    /\ report.op = "audit" =>
          /\ Returned.stats.synced = Cardinality(Mentioned(audit_found(code)))
          /\ Returned.stats.issues
                = Cardinality(audit_found(code) \ Mentioned(audit_found(code)))
          /\ (audit_found(code) # {} =>
                Range(Returned.detailed_issues) \subseteq
                   {"Documentation missing for '" \o e \o "'" :
                       e \in audit_found(code) \ Mentioned(audit_found(code))})

\* perform_audit on an empty doc text counted as synced an entity that a
\* comment of the code mentions
C19_Witness ==
    /\ report.op = "perform_audit"
    /\ doc = ""
    /\ Returned.stats.synced_terms >= 1
    /\ Returned.stats.total_issues >= 1

\* C20: the visual field holds the count of common items, of code-only
\* items and of doc-only items of the analysis, on every return path
\* (perform_audit has no doc-only set: its count of synced and of missing
\* entities).
C20_VisualHoldsCounts ==
    /\ report.op = "symmetric_analysis" =>
          Returned.visual_data = <<Len(Returned.details.common_words),
                                   Len(Returned.details.missing_in_doc),
                                   Len(Returned.details.missing_in_code)>>
    /\ report.op = "perform_audit" =>
          /\ Len(Returned.visual) = 3
          /\ Returned.visual[1]
                = Cardinality(found_logic(code)
                                 \ perform_audit_missing(code, doc))
          /\ Returned.visual[2] = Cardinality(perform_audit_missing(code, doc))

\* ------------------------------------------------------------------------
\* The normalizer and the term vectors.
\* ------------------------------------------------------------------------
\* a token as preprocess may return it: lower-case, at least two characters,
\* no stop word, free of "_" and of the punctuation preprocess replaces
CleanToken(t) ==
    /\ t = Lower(t)
    /\ Len(t) >= 2
    /\ t \notin stop_words
    /\ \A i \in 1..Len(t) : CharAt(t, i) \notin StructuralPunctuation \cup {"_"}

\* every token of the sequence is clean
CleanTokens(tokens) == \A i \in 1..Len(tokens) : CleanToken(tokens[i])

\* C21: every token preprocess returns is lower-case, has at least two
\* characters, is no stop word and holds no underscore and no stripped
\* punctuation character; the empty text gives the empty sequence.
C21_TokensNormalised ==
    report.op \in StatisticalOps =>
        /\ CleanTokens(preprocess(code))
        /\ CleanTokens(preprocess(doc))
        /\ (code = "" => preprocess(code) = <<>>)
        /\ (doc = "" => preprocess(doc) = <<>>)

\* compute_similarity normalised a code text with capitals, an underscore,
\* punctuation and a one-letter name
C21_Witness ==
    /\ report.op = "compute_similarity"
    /\ ~IsBlank(doc)
    /\ code # Lower(code)
    /\ Contains(code, "_")
    /\ preprocess(code) = <<"def", "get", "dist">>

\* the weights of the term vector compute_similarity builds of a text
TermVector(text) == Counter(preprocess(text))

\* the weight of every token that occurs n >= 2 times is below n, as
\* 1 + log(n) is
SublinearVector(text) ==
    \A t \in DOMAIN TermVector(text) :
        Count(preprocess(text), t) >= 2 =>
            TermVector(text)[t] < Count(preprocess(text), t)

\* C22: the term vectors of compute_similarity weight a token that occurs
\* tf times by 1 + log(tf), which is below tf as soon as the token is
\* repeated, and not by the raw count tf.
C22_SublinearWeights ==
    (report.op = "compute_similarity" /\ ~IsBlank(code) /\ ~IsBlank(doc)) =>
        SublinearVector(code) /\ SublinearVector(doc)

\* ------------------------------------------------------------------------
\* src/similarity_engine.py and src/main.py : the /similarity entry point
\* ------------------------------------------------------------------------
\* the attributes StatisticalAnalyzer.__init__ sets on the object
StatisticalAnalyzerAttributes == {"stop_words", "operational_map"}

\* str(e) of the AttributeError of a missing attribute
AttributeErrorText(name) ==
    "'StatisticalAnalyzer' object has no attribute '" \o name \o "'"

\* the dict of the except ValueError branch
zero_result ==
    [cosine_similarity |-> Zero, code_vector_norm |-> Zero,
     doc_vector_norm |-> Zero]

\* lines 35-45: the dict computed of the fitted matrix.  The rows of a
\* tf-idf matrix have norm 1, or 0 when empty; of the cosine, rounded to
\* four decimals, only whether it is 0.0 is kept (as in gap_analysis).
vector_result(matrix) ==
    [cosine_similarity_is_zero |-> score_rounds_to_zero(matrix),
     code_vector_norm |-> IF nonzero(matrix[1]) = {} THEN Zero ELSE One,
     doc_vector_norm |-> IF nonzero(matrix[2]) = {} THEN Zero ELSE One]

\* check_documentation(code_text, doc_text): analyzer.vectorizer is read
\* inside the try, and an AttributeError is no ValueError
check_documentation(code_text, doc_text) ==
    IF "vectorizer" \notin StatisticalAnalyzerAttributes
    THEN Raise(AttributeErrorText("vectorizer"))
    ELSE LET fit == fit_transform(code_text, doc_text)
         IN  IF IsExc(fit) THEN Ok(zero_result)
             ELSE Ok(vector_result(fit.ok.matrix))

\* run_similarity(code, documentation) of src/main.py
run_similarity(code_text, doc_text) ==
    LET result == check_documentation(code_text, doc_text)
    IN  IF IsExc(result) THEN Ok([error |-> result.exc])
        ELSE Ok([similarity_result |-> result.ok])

\* check_documentation(code, doc)
CallCheckDocumentation ==
    /\ report.op = "none"
    /\ report' = [op |-> "check_documentation",
                  out |-> check_documentation(code, doc)]
    /\ UNCHANGED <<pipe, scan, hist, code, doc, vectorizer, tin, tpc, tmatrix, tout, bands>>

\* POST /similarity
CallRunSimilarity ==
    /\ report.op = "none"
    /\ report' = [op |-> "run_similarity", out |-> run_similarity(code, doc)]
    /\ UNCHANGED <<pipe, scan, hist, code, doc, vectorizer, tin, tpc, tmatrix, tout, bands>>


\* C23: check_documentation returns for any two strings a dict with exactly
\* the keys cosine_similarity, code_vector_norm and doc_vector_norm.
C23_ThreeKeysAlways ==
    report.op = "check_documentation" =>
          /\ ~IsExc(report.out)
          /\ DOMAIN Returned
                \in {{"cosine_similarity", "code_vector_norm", "doc_vector_norm"},
                     {"cosine_similarity_is_zero", "code_vector_norm",
                      "doc_vector_norm"}}

\* ------------------------------------------------------------------------
\* The score of the audits, from the entity sets.
\* ------------------------------------------------------------------------
\* src/demo_server.py, EnterpriseDocSyncEngine.audit, lines 146-153: the
\* dict computed of the set found and the set synced
demo_audit_scored(found, synced) ==
    IF found = {}
    THEN Ok([score |-> 0, stats |-> [issues |-> 0, synced |-> 0],
             detail |-> "No logic units detected in project.",
             visual |-> <<0, 1>>])
    ELSE LET percent == IntPercent(Cardinality(synced), Cardinality(found))
             gaps == Cardinality(found) - Cardinality(synced)
         IN  Ok([score |-> percent.ok,
                 stats |-> [issues |-> gaps, synced |-> Cardinality(synced)],
                 detail |-> "Aligning " \o ToString(Cardinality(found))
                     \o " logic units with documentation context. "
                     \o ToString(gaps) \o " gaps found.",
                 visual |-> <<Cardinality(synced), gaps>>])

\* the name of the i-th entity of a scored set
Unit(i) == "unit" \o ToString(i)

\* the entities a .. b
Units(a, b) == {Unit(i) : i \in a..b}

\* the entities a .. b in one of the orders list() may yield them
UnitOrder(a, b) == [i \in 1..(b - a + 1) |-> Unit(a + i - 1)]

\* the entries of a returned dict without those of the keys named
Without(dict, keys) == [k \in DOMAIN dict \ keys |-> dict[k]]

\* the entity sets of the count checks: found entities, of which the
\* first synced ones occur in the pool
CountInputs ==
    {[kind |-> "counts", found |-> p[1], synced |-> p[2]] :
        p \in {q \in (1..MaxFound) \X (0..MaxFound) : q[2] <= q[1]}}

CountInit ==
    /\ code = ""
    /\ doc = ""
    /\ report = NoReport
    /\ vectorizer = <<>>
    /\ tin = [t \in Threads |-> <<"", "">>]
    /\ tpc = [t \in Threads |-> "idle"]
    /\ tmatrix = [t \in Threads |-> <<<<>>, <<>>>>]
    /\ tout = [t \in Threads |-> NoReport]
    /\ pipe = NoPipe
    /\ scan = NoScan
    /\ hist = NoHist
    /\ bands \in CountInputs

\* lines 52-68 of perform_audit of src/index.py on the sets.  The state keeps
\* the entries of the dict that the two sets determine: suggestions, which
\* follows the hash order of list(missing), is left out
ScorePerformAudit ==
    /\ bands.kind = "counts"
    /\ bands' = [kind |-> "scored", engine |-> "perform_audit",
                 found |-> bands.found, synced |-> bands.synced,
                 out |-> Without(perform_audit_synced(Units(1, bands.found),
                                    Units(1, bands.synced),
                                    UnitOrder(bands.synced + 1, bands.found)).ok,
                                 {"suggestions"})]
    /\ UNCHANGED <<pipe, scan, hist, code, doc, report, vectorizer, tin, tpc, tmatrix, tout>>

\* lines 393-411 of Engine.audit of src/api/index.py on the sets.  The state
\* keeps the entries of the dict that the two sets determine:
\* detailed_issues, which follows the hash order of list(missing), and the
\* two snippets of the texts are left out
ScoreAudit ==
    /\ bands.kind = "counts"
    /\ bands' = [kind |-> "scored", engine |-> "audit",
                 found |-> bands.found, synced |-> bands.synced,
                 out |-> Without(audit_scored(Units(1, bands.found),
                                    Units(1, bands.synced), "", "",
                                    UnitOrder(bands.synced + 1, bands.found)).ok,
                                 {"detailed_issues", "code_snippet",
                                  "doc_snippet"})]
    /\ UNCHANGED <<pipe, scan, hist, code, doc, report, vectorizer, tin, tpc, tmatrix, tout>>

\* lines 146-153 of EnterpriseDocSyncEngine.audit of src/demo_server.py
ScoreDemoAudit ==
    /\ bands.kind = "counts"
    /\ bands' = [kind |-> "scored", engine |-> "demo_audit",
                 found |-> bands.found, synced |-> bands.synced,
                 out |-> demo_audit_scored(Units(1, bands.found),
                                           Units(1, bands.synced)).ok]
    /\ UNCHANGED <<pipe, scan, hist, code, doc, report, vectorizer, tin, tpc, tmatrix, tout>>

CountNext == ScorePerformAudit \/ ScoreAudit \/ ScoreDemoAudit

SpecCounts == CountInit /\ [][CountNext]_vars

\* the two counts a scored report shows: synced and issues/missing
ShownCounts ==
    IF bands.engine = "perform_audit"
    THEN <<bands.out.stats.synced_terms, bands.out.stats.total_issues>>
    ELSE <<bands.out.stats.synced, bands.out.stats.issues>>

\* C24: when at least one entity is found the score is
\* floor(100 * |synced| / |found|), lies in 0..100, is 100 exactly when no
\* entity is missing, and the two counts shown are |synced| and
\* |found| - |synced|, which sum to |found|.
C24_ScoreIsFloorPercent ==
    bands.kind = "scored" =>
        /\ bands.out.score = (100 * bands.synced) \div bands.found
        /\ bands.out.score \in 0..100
        /\ (bands.out.score = 100) <=> (bands.synced = bands.found)
        /\ ShownCounts = <<bands.synced, bands.found - bands.synced>>
        /\ ShownCounts[1] + ShownCounts[2] = bands.found

\* ------------------------------------------------------------------------
\* src/src/agent/git_manager.py and src/src/agent/pipeline.py
\* ------------------------------------------------------------------------
\* the branch the repository is on when the pipeline starts
StartBranch == "main"

\* f"{base_name}-{timestamp}" of create_branch
BranchName == "craftai-auto-docs-20260101-120000"

\* the environments of a run: whether the git executable can be started,
\* whether the working directory is a git work tree, whether a branch of
\* the name create_branch builds exists already, whether git knows the
\* committer's identity, whether origin accepts the push, whether the files
\* the run writes are committed already with the content it writes (a
\* second run), and the other files of the work tree that differ from the
\* last commit
Environments ==
    [installed : BOOLEAN, work_tree : BOOLEAN, branch_taken : BOOLEAN,
     identity : BOOLEAN, remote : BOOLEAN, rerun : BOOLEAN,
     others : {{}, {"output/report.md"}}]

\* the files of the work tree that differ from the last commit, files being
\* the ones the run wrote: what git add . stages
WorkTreeChanges(env, files) ==
    (IF env.rerun THEN {} ELSE files) \cup env.others

\* the repository before the run
StartRepo(env) ==
    [branches |-> IF env.branch_taken THEN {StartBranch, BranchName}
                  ELSE {StartBranch},
     created |-> {},
     head |-> StartBranch,
     staged |-> {},
     commits |-> {},
     pushed |-> {}]

\* git exits with status 0 on the arguments args
GitSucceeds(args, repo, env, files) ==
    /\ env.work_tree
    /\ CASE args[1] = "checkout" -> args[3] \notin repo.branches
         [] args[1] = "add" -> TRUE
         [] args[1] = "commit" -> repo.staged # {} /\ env.identity
         [] args[1] = "push" -> args[3] \in repo.branches /\ env.remote

\* the repository after a git command that exited with status 0
GitEffect(args, repo, env, files) ==
    CASE args[1] = "checkout" ->
            [repo EXCEPT !.branches = @ \cup {args[3]},
                         !.created = @ \cup {args[3]},
                         !.head = args[3]]
      [] args[1] = "add" ->
            [repo EXCEPT !.staged = WorkTreeChanges(env, files)]
      [] args[1] = "commit" ->
            [repo EXCEPT !.commits = @ \cup {[branch |-> repo.head,
                                              files |-> repo.staged]},
                         !.staged = {}]
      [] args[1] = "push" -> [repo EXCEPT !.pushed = @ \cup {args[3]}]

\* run_git_command(args): the stripped output, or None after a
\* CalledProcessError; the exception of a git that cannot be started is not
\* caught here
run_git_command(args, repo, env, files) ==
    IF ~env.installed
    THEN [result |-> Raise("[Errno 2] No such file or directory: 'git'"),
          repo |-> repo]
    ELSE IF GitSucceeds(args, repo, env, files)
    THEN [result |-> Ok("output"), repo |-> GitEffect(args, repo, env, files)]
    ELSE [result |-> Ok("None"), repo |-> repo]

\* the documentation files of a run that generates docs for g functions
\* and suggests updates for the matches whose score is low
GeneratedFile(i) == Unit(i) \o ".md"
SuggestionFile(i) == "match" \o ToString(i) \o "_update_suggestion.md"

\* the results of run_check a run can start from: the number of
\* undocumented functions and, per match, whether its score is below 0.4
PipelineInputs ==
    [perform_git_actions : BOOLEAN,
     missing_docs : 0..MaxDocs,
     matches : UNION {[1..n -> BOOLEAN] : n \in 0..MaxDocs},
     env : Environments]

PipelineInit ==
    /\ code = ""
    /\ doc = ""
    /\ report = NoReport
    /\ vectorizer = <<>>
    /\ tin = [t \in Threads |-> <<"", "">>]
    /\ tpc = [t \in Threads |-> "idle"]
    /\ tmatrix = [t \in Threads |-> <<<<>>, <<>>>>]
    /\ tout = [t \in Threads |-> NoReport]
    /\ bands = NoBands
    /\ scan = NoScan
    /\ hist = NoHist
    /\ \E input \in PipelineInputs :
          pipe = [pc |-> "generate", input |-> input,
                  generated_docs |-> <<>>, updated_docs |-> <<>>,
                  next_match |-> 1, written |-> {},
                  repo |-> StartRepo(input.env), log |-> <<>>,
                  written_at_git |-> {}, branch_name |-> "",
                  messages |-> <<>>]

\* lines 49-64: one pass of the loop over results["missing_docs"]
WriteGenerated ==
    /\ pipe.pc = "generate"
    /\ Len(pipe.generated_docs) < pipe.input.missing_docs
    /\ pipe' = [pipe EXCEPT
          !.written = @ \cup {GeneratedFile(Len(pipe.generated_docs) + 1)},
          !.generated_docs = Append(@, Unit(Len(pipe.generated_docs) + 1))]
    /\ UNCHANGED <<code, doc, report, vectorizer, tin, tpc, tmatrix, tout,
                   bands, scan, hist>>

\* lines 67-81: one pass of the loop over results["matches"]
WriteSuggestion ==
    /\ pipe.pc = "generate"
    /\ Len(pipe.generated_docs) = pipe.input.missing_docs
    /\ pipe.next_match <= Len(pipe.input.matches)
    /\ pipe' = IF pipe.input.matches[pipe.next_match]
               THEN [pipe EXCEPT
                       !.written = @ \cup {SuggestionFile(pipe.next_match)},
                       !.updated_docs =
                           Append(@, "match" \o ToString(pipe.next_match)),
                       !.next_match = @ + 1]
               ELSE [pipe EXCEPT !.next_match = @ + 1]
    /\ UNCHANGED <<code, doc, report, vectorizer, tin, tpc, tmatrix, tout,
                   bands, scan, hist>>

\* a slip: the run counts as having changed something whatever it wrote
changes_made_always(p) == Len(p.generated_docs) >= 0

\* len(generated_docs) > 0 or len(updated_docs) > 0
changes_made(p) == Len(p.generated_docs) > 0 \/ Len(p.updated_docs) > 0

\* lines 83-86 and 125-128: the test that starts the git automation
Decide ==
    /\ pipe.pc = "generate"
    /\ Len(pipe.generated_docs) = pipe.input.missing_docs
    /\ pipe.next_match > Len(pipe.input.matches)
    /\ pipe' =
          IF pipe.input.perform_git_actions /\ changes_made(pipe)
          THEN [pipe EXCEPT !.pc = "create_branch"]
          ELSE IF ~changes_made(pipe)
          THEN [pipe EXCEPT !.pc = "report",
                            !.messages = Append(@, "No documentation updates needed.")]
          ELSE [pipe EXCEPT !.pc = "report",
                            !.messages = Append(@, "Git actions skipped (use --git to enable).")]
    /\ UNCHANGED <<code, doc, report, vectorizer, tin, tpc, tmatrix, tout,
                   bands, scan, hist>>

\* one git command of the automation: p after run_git_command(args), at
\* position next, or at the except clause of line 123 when the command
\* raised
GitStep(p, args, ran, next) ==
    IF IsExc(ran.result)
    THEN [p EXCEPT !.pc = "report",
                   !.messages = Append(@, "Git automation failed: " \o ran.result.exc)]
    ELSE [p EXCEPT !.pc = next,
                   !.repo = ran.repo,
                   !.log = Append(@, args),
                   !.written_at_git = IF p.log = <<>> THEN p.written ELSE @]

\* line 100: create_branch(base_name="craftai-auto-docs")
CreateBranch ==
    /\ pipe.pc = "create_branch"
    /\ pipe' = [GitStep(pipe, <<"checkout", "-b", BranchName>>,
                        run_git_command(<<"checkout", "-b", BranchName>>,
                                        pipe.repo, pipe.input.env, pipe.written),
                        "add")
                   EXCEPT !.branch_name = BranchName]
    /\ UNCHANGED <<code, doc, report, vectorizer, tin, tpc, tmatrix, tout,
                   bands, scan, hist>>

\* line 101, commit_changes: git add .
StageChanges ==
    /\ pipe.pc = "add"
    /\ pipe' = GitStep(pipe, <<"add", ".">>,
                       run_git_command(<<"add", ".">>, pipe.repo,
                                       pipe.input.env, pipe.written),
                       "commit")
    /\ UNCHANGED <<code, doc, report, vectorizer, tin, tpc, tmatrix, tout,
                   bands, scan, hist>>

\* line 101, commit_changes: git commit -m message
CommitChanges ==
    /\ pipe.pc = "commit"
    /\ pipe' = GitStep(pipe, <<"commit", "-m", "CraftAI Auto-Docs">>,
                       run_git_command(<<"commit", "-m", "CraftAI Auto-Docs">>,
                                       pipe.repo, pipe.input.env, pipe.written),
                       "push")
    /\ UNCHANGED <<code, doc, report, vectorizer, tin, tpc, tmatrix, tout,
                   bands, scan, hist>>

\* push_branch(branch_name) and lines 105-121: the status message
PushReported(p, ran) ==
    IF IsExc(ran.result) THEN p
    ELSE [p EXCEPT !.messages = Append(@,
             IF ran.result.ok # "None"
             THEN "Changes pushed to " \o p.branch_name
             ELSE "Changes committed to local branch " \o p.branch_name
                     \o ", but push failed.")]

\* lines 103-121
PushBranch ==
    /\ pipe.pc = "push"
    /\ pipe' = PushReported(
                  GitStep(pipe, <<"push", "origin", pipe.branch_name>>,
                          run_git_command(<<"push", "origin", pipe.branch_name>>,
                                          pipe.repo, pipe.input.env, pipe.written),
                          "report"),
                  run_git_command(<<"push", "origin", pipe.branch_name>>,
                                  pipe.repo, pipe.input.env, pipe.written))
    /\ UNCHANGED <<code, doc, report, vectorizer, tin, tpc, tmatrix, tout,
                   bands, scan, hist>>

\* lines 130-133: the summary
Report ==
    /\ pipe.pc = "report"
    /\ pipe' = [pipe EXCEPT !.pc = "done"]
    /\ UNCHANGED <<code, doc, report, vectorizer, tin, tpc, tmatrix, tout,
                   bands, scan, hist>>

PipelineNext ==
    \/ WriteGenerated
    \/ WriteSuggestion
    \/ Decide
    \/ CreateBranch
    \/ StageChanges
    \/ CommitChanges
    \/ PushBranch
    \/ Report

SpecPipeline == PipelineInit /\ [][PipelineNext]_vars

\* the four git commands of the automation, in the order of the code
FourCommands ==
    << <<"checkout", "-b", BranchName>>, <<"add", ".">>,
       <<"commit", "-m", "CraftAI Auto-Docs">>,
       <<"push", "origin", BranchName>> >>

\* the documentation files the run has to write
FilesOfRun ==
    {GeneratedFile(i) : i \in 1..pipe.input.missing_docs}
    \cup {SuggestionFile(i) :
             i \in {j \in DOMAIN pipe.input.matches : pipe.input.matches[j]}}

\* C25: run issues git commands only when perform_git_actions is true and
\* at least one documentation file was generated or suggested; the commands
\* are checkout -b <branch>, add, commit, push <branch> in this order, each
\* exactly once, and the first is issued after every file was written.
C25_GitOnlyWhenAskedInOrder ==
    pipe.pc # "idle" =>
        /\ pipe.log # <<>> =>
              /\ pipe.input.perform_git_actions
              /\ FilesOfRun # {}
              /\ pipe.written_at_git = FilesOfRun
        /\ pipe.log = SubSeq(FourCommands, 1, Len(pipe.log))
        /\ (pipe.pc = "done" /\ pipe.log # <<>>) => pipe.log = FourCommands

\* a run that generated two files and suggested an update ended after the
\* four commands
C25_Witness ==
    /\ pipe.pc = "done"
    /\ pipe.log = FourCommands
    /\ Len(pipe.generated_docs) = 2
    /\ Len(pipe.updated_docs) >= 1

\* the branch of this run was created by it and holds the changes of the
\* run: a commit with the files it wrote, unless they were committed
\* already with the same content
CommittedOnNewBranch ==
    /\ pipe.branch_name \in pipe.repo.created
    /\ \/ pipe.input.env.rerun
       \/ \E c \in pipe.repo.commits :
             c.branch = pipe.branch_name /\ FilesOfRun \subseteq c.files

\* C26: when run reports "Changes pushed to <branch>" the branch was
\* created, the changes were committed on it and the push succeeded; when
\* it reports "Changes committed to local branch <branch>, but push
\* failed" a commit holding the changes exists on the newly created branch.
C26_StatusTruthful ==
    pipe.pc # "idle" =>
        /\ "Changes pushed to " \o BranchName \in Range(pipe.messages) =>
              CommittedOnNewBranch /\ BranchName \in pipe.repo.pushed
        /\ ("Changes committed to local branch " \o BranchName
                \o ", but push failed.") \in Range(pipe.messages) =>
              CommittedOnNewBranch

\* ------------------------------------------------------------------------
\* src/src/utils/consistency_checker.py : ConsistencyChecker.run_check
\* ------------------------------------------------------------------------
\* the keys of the dict SimilarityChecker.compute_similarity returns, for
\* the record that models it (lines 49-55, 87-93 and 97-101 of
\* similarity_checker.py)
DictKeys(analysis) ==
    IF "error" \in DOMAIN analysis
    THEN {"score", "error", "recommendation"}
    ELSE {"score", "common_terms", "missing_in_code", "missing_in_doc",
          "recommendation"}

\* analysis[key] of lines 74-78 on a dict without the key
KeyErrorOf(keys) ==
    IF "score" \notin keys THEN "KeyError: 'score'"
    ELSE IF "recommendation" \notin keys THEN "KeyError: 'recommendation'"
    ELSE IF "missing_in_code" \notin keys THEN "KeyError: 'missing_in_code'"
    ELSE IF "missing_in_doc" \notin keys THEN "KeyError: 'missing_in_doc'"
    ELSE ""

\* lines 69-80: the entry appended to results["matches"] for func (the
\* score is kept as in gap_analysis, the text of the recommendation is
\* left out)
match_entry(func, analysis) ==
    IF IsExc(analysis) THEN analysis
    ELSE IF KeyErrorOf(DictKeys(analysis.ok)) # ""
    THEN Raise(KeyErrorOf(DictKeys(analysis.ok)))
    ELSE Ok([name |-> func, type |-> "function",
             similarity_score_is_zero |-> analysis.ok.score_is_zero,
             issues |-> [missing_in_code |-> analysis.ok.missing_in_code,
                         missing_in_doc |-> analysis.ok.missing_in_doc]])

RECURSIVE analyse_matches(_, _, _, _)
\* lines 65-83: the loop over common_funcs, which iterates in the order
\* order, from its k-th pass on; matches is results["matches"] so far
analyse_matches(order, k, repos, matches) ==
    IF k > Len(order) THEN Ok(matches)
    ELSE LET entry == match_entry(order[k],
                         sk_compute_similarity(repos.code[order[k]],
                                               repos.docs[order[k]]))
         IN  IF IsExc(entry) THEN entry
             ELSE analyse_matches(order, k + 1, repos,
                                  Append(matches, entry.ok))

\* lines 41-93: the results for the matches analysed (average_similarity,
\* the mean of the scores, is left out)
run_check_results(repos, matches) ==
    IF IsExc(matches) THEN matches
    ELSE Ok([matches |-> matches.ok,
             missing_docs |-> DOMAIN repos.code \ DOMAIN repos.docs,
             missing_code |-> DOMAIN repos.docs \ DOMAIN repos.code,
             stats |-> [total_functions |-> Cardinality(DOMAIN repos.code),
                        total_documented |->
                            Cardinality(DOMAIN repos.code \cap DOMAIN repos.docs)]])

\* run_check() on the functions of the code (name -> docstring) and of the
\* docs (name -> description), the set common_funcs iterating in the order
\* order
run_check(repos, order) ==
    run_check_results(repos, analyse_matches(order, 1, repos, <<>>))

\* the functions of a project: dist has the docstring code_text and the
\* description doc_text, log is documented as it is written, save is
\* undocumented and load is documented only
ReposOf(code_text, doc_text) ==
    [code |-> [f \in {"dist", "log", "save"} |->
                  CASE f = "dist" -> code_text
                    [] f = "log" -> "log of dist "
                    [] f = "save" -> ""],
     docs |-> [f \in {"dist", "log", "load"} |->
                  CASE f = "dist" -> doc_text
                    [] f = "log" -> "log of dist "
                    [] f = "load" -> "retrieve it"]]

\* ConsistencyChecker(code_dir, doc_dir).run_check()
CallRunCheck ==
    /\ report.op = "none"
    /\ \E order \in Orderings({"dist", "log"}) :
          report' = [op |-> "run_check",
                     out |-> run_check(ReposOf(code, doc), order)]
    /\ UNCHANGED <<pipe, scan, hist, code, doc, vectorizer, tin, tpc, tmatrix,
                   tout, bands>>

EntryNext == CallCheckDocumentation \/ CallRunSimilarity \/ CallRunCheck

SpecEntry == Init /\ [][EntryNext]_vars

\* C27: run_check returns a result with one match entry for every function
\* name present in both code and docs, whatever compute_similarity returns
\* for the pair, and does not raise.
C27_OneMatchPerCommonFunction ==
    report.op = "run_check" =>
        /\ ~IsExc(report.out)
        /\ Len(Returned.matches) = 2
        /\ {Returned.matches[i].name : i \in DOMAIN Returned.matches}
              = {"dist", "log"}

\* ------------------------------------------------------------------------
\* src/src/utils/doc_parser.py : extract_documented_items
\* ------------------------------------------------------------------------
RECURSIVE Strip(_)
\* str.strip()
Strip(s) ==
    IF s = "" THEN ""
    ELSE IF IsSpace(CharAt(s, 1)) THEN Strip(SubSeq(s, 2, Len(s)))
    ELSE IF IsSpace(CharAt(s, Len(s))) THEN Strip(SubSeq(s, 1, Len(s) - 1))
    ELSE s

RECURSIVE RemoveFrom(_, _, _)
RemoveFrom(s, i, old) ==
    IF i > Len(s) THEN ""
    ELSE IF StartsAt(s, i, old) THEN RemoveFrom(s, i + Len(old), old)
    ELSE CharAt(s, i) \o RemoveFrom(s, i + 1, old)

\* s.replace(old, "")
Remove(s, old) == RemoveFrom(s, 1, old)

\* s.split("(")[0]
BeforeParen(s) ==
    IF Contains(s, "(")
    THEN SubSeq(s, 1, (CHOOSE i \in 1..Len(s) :
                          /\ CharAt(s, i) = "("
                          /\ \A j \in 1..(i - 1) : CharAt(s, j) # "(") - 1)
    ELSE s

RECURSIVE JoinLines(_)
\* "\n".join(buffer)
JoinLines(buffer) ==
    IF buffer = <<>> THEN ""
    ELSE IF Len(buffer) = 1 THEN buffer[1]
    ELSE buffer[1] \o "\n" \o JoinLines(Tail(buffer))

\* lines 51-67: name and type of the item a header opens; header_text[0]
\* raises on the empty header text
header_item(header_text) ==
    IF StartsAt(header_text, 1, "function:")
    THEN Ok([item |-> Strip(Remove(header_text, "function:")),
             type |-> "function"])
    ELSE IF StartsAt(header_text, 1, "class:")
    THEN Ok([item |-> Strip(Remove(header_text, "class:")), type |-> "class"])
    ELSE IF Contains(header_text, "def ")
    THEN Ok([item |-> BeforeParen(Remove(header_text, "def ")),
             type |-> "function"])
    ELSE IF header_text = ""
    THEN Raise("IndexError: string index out of range")
    ELSE IF CharAt(header_text, 1) \in UpperSet
    THEN Ok([item |-> header_text, type |-> "class"])
    ELSE Ok([item |-> header_text, type |-> "function"])

\* d[key] = value on the dict d, a function of strings
SetItem(d, key, value) ==
    [k \in DOMAIN d \cup {key} |-> IF k = key THEN value ELSE d[k]]

\* save_current(): the dict documented afterwards (current_item is "" for
\* None as for the empty name: both are false)
save_current(documented, current_item, current_type, buffer) ==
    IF current_item # "" /\ buffer # <<>>
    THEN IF current_type = "function"
         THEN [documented EXCEPT
                 !.functions = SetItem(@, current_item, Strip(JoinLines(buffer)))]
         ELSE IF current_type = "class"
         THEN [documented EXCEPT
                 !.classes = SetItem(@, current_item, Strip(JoinLines(buffer)))]
         ELSE documented
    ELSE documented

\* lines 51-67: the locals after a header line whose item is opened
open_item(st, opened) ==
    IF IsExc(opened) THEN [st EXCEPT !.pc = "raised", !.exc = opened.exc]
    ELSE [st EXCEPT
            !.current_item = opened.ok.item,
            !.current_type = opened.ok.type,
            !.i = @ + 1]

\* lines 40-72: one pass of the loop, on the line lines[i]
scan_line(st, line) ==
    IF StartsAt(line, 1, "## ")
    THEN open_item([st EXCEPT
                      !.documented = save_current(st.documented, st.current_item,
                                                  st.current_type, st.buffer),
                      !.buffer = <<>>],
                   header_item(Strip(Remove(line, "##"))))
    ELSE IF st.current_item # "" /\ ~StartsAt(line, 1, "#")
    THEN [st EXCEPT !.buffer = Append(@, line), !.i = @ + 1]
    ELSE [st EXCEPT !.i = @ + 1]

\* the lines a markdown file is made of
LineSamples ==
    {"## dist", "## Log", "## ", "metric path", "", "### note",
     "## function:", "## def dist(x)"}

\* content.split("\n"): at least one line
Files == UNION {[1..n -> LineSamples] : n \in 1..MaxLines}

\* the locals of extract_documented_items before the loop
ScanStart(lines) ==
    [pc |-> "scanning", lines |-> lines, i |-> 1, current_item |-> "",
     current_type |-> "None", buffer |-> <<>>,
     documented |-> [functions |-> <<>>, classes |-> <<>>], exc |-> ""]

ScanInit ==
    /\ code = ""
    /\ doc = ""
    /\ report = NoReport
    /\ vectorizer = <<>>
    /\ tin = [t \in Threads |-> <<"", "">>]
    /\ tpc = [t \in Threads |-> "idle"]
    /\ tmatrix = [t \in Threads |-> <<<<>>, <<>>>>]
    /\ tout = [t \in Threads |-> NoReport]
    /\ bands = NoBands
    /\ pipe = NoPipe
    /\ hist = NoHist
    /\ \E lines \in Files : scan = ScanStart(lines)

\* one pass of the for loop
ScanLine ==
    /\ scan.pc = "scanning"
    /\ scan.i <= Len(scan.lines)
    /\ scan' = scan_line(scan, scan.lines[scan.i])
    /\ UNCHANGED <<code, doc, report, vectorizer, tin, tpc, tmatrix, tout,
                   bands, pipe, hist>>

\* lines 74-76: the last save_current() and the return
ScanReturn ==
    /\ scan.pc = "scanning"
    /\ scan.i > Len(scan.lines)
    /\ scan' = [scan EXCEPT
                  !.pc = "returned",
                  !.documented = save_current(scan.documented, scan.current_item,
                                              scan.current_type, scan.buffer)]
    /\ UNCHANGED <<code, doc, report, vectorizer, tin, tpc, tmatrix, tout,
                   bands, pipe, hist>>

ScanNext == ScanLine \/ ScanReturn

SpecScan == ScanInit /\ [][ScanNext]_vars

\* the indices of the '## ' headers among lines
HeaderLines(lines) == {i \in DOMAIN lines : StartsAt(lines[i], 1, "## ")}

\* the last '## ' header before line j, 0 if there is none
Opener(lines, j) ==
    IF \E h \in HeaderLines(lines) : h < j
    THEN CHOOSE h \in HeaderLines(lines) :
            /\ h < j
            /\ \A g \in HeaderLines(lines) : g < j => g <= h
    ELSE 0

\* the lines attributed to the item the header at index h opened: those
\* after h and before the next '## ' header that do not start with '#'
Attributed(lines, h) ==
    IF h = 0 THEN <<>>
    ELSE SelectSeq(SubSeq(lines, h + 1,
                          IF \E g \in HeaderLines(lines) : g > h
                          THEN (CHOOSE g \in HeaderLines(lines) :
                                   /\ g > h
                                   /\ \A f \in HeaderLines(lines) :
                                         f > h => g <= f) - 1
                          ELSE Len(lines)),
                   LAMBDA line : ~StartsAt(line, 1, "#"))

\* the item the header at index h opens
Opened(lines, h) == header_item(Strip(Remove(lines[h], "##")))

\* the headers of lines that are the last one of their item
LastHeaders(lines) ==
    {h \in HeaderLines(lines) :
        \A g \in HeaderLines(lines) :
            g > h => Opened(lines, g) # Opened(lines, h)}

\* the items that must be recorded, as pairs of an item and a description
MustRecord(lines) ==
    {[item |-> Opened(lines, h).ok.item, type |-> Opened(lines, h).ok.type,
      desc |-> Strip(JoinLines(Attributed(lines, h)))] :
        h \in {g \in LastHeaders(lines) : Attributed(lines, g) # <<>>}}

\* the items recorded, as pairs of an item and a description
Recorded(documented) ==
    {[item |-> n, type |-> "function", desc |-> documented.functions[n]] :
        n \in DOMAIN documented.functions}
    \cup {[item |-> n, type |-> "class", desc |-> documented.classes[n]] :
            n \in DOMAIN documented.classes}

\* C28: extract_documented_items scans the lines in order; a line that
\* does not start with '#' is attributed to the item the last '## ' header
\* before it opened, and to none before the first header; the description
\* recorded for a name is made of the lines attributed after its last
\* '## ' header, and the item is recorded iff there is such a line.
C28_ItemsFollowHeaders ==
    /\ scan.pc # "raised"
    /\ scan.pc = "scanning" =>
          scan.buffer = Attributed(SubSeq(scan.lines, 1, scan.i - 1),
                                   Opener(scan.lines, scan.i))
    /\ scan.pc = "returned" =>
          Recorded(scan.documented) = MustRecord(scan.lines)

\* ------------------------------------------------------------------------
\* src/ci_check.py: the CI gate.  A file is what FileLoader.load returns
\* for it, Ok(text), or what it raises.
\* ------------------------------------------------------------------------
MaxFiles == 2

THRESHOLD == Rat(1, 10)

RECURSIVE load_text(_)
\* lines 30-42: the text of every file that loads, each followed by "\n";
\* a file whose load raises is skipped
load_text(files) ==
    IF files = <<>> THEN ""
    ELSE (IF IsExc(Head(files)) THEN "" ELSE Head(files).ok \o "\n")
         \o load_text(Tail(files))

\* lines 66-72: the decision on the result of symmetric_analysis
ci_decide(result) ==
    [stage |-> "scored", score |-> result.symmetric_score,
     label |-> result.match_label,
     status |-> IF NumLess(result.symmetric_score, THRESHOLD) THEN 1 ELSE 0]

\* lines 44-72, from the two loaded texts
ci_analyze(code_text, doc_text) ==
    IF IsBlank(doc_text) THEN [stage |-> "no_docs", status |-> 1]
    ELSE ci_decide(symmetric_analysis(code_text, doc_text))

\* a slip: the test for an empty list of Python files is left out
main_without_file_test(py_files, md_files) ==
    ci_analyze(load_text(py_files), load_text(md_files))

\* main() of ci_check.py, from the files list_python_files and
\* list_markdown_files return: the stage it exits at and sys.exit's status
main(py_files, md_files) ==
    IF py_files = <<>> THEN [stage |-> "no_files", status |-> 0]
    ELSE ci_analyze(load_text(py_files), load_text(md_files))

\* the second sample and the third of MdSamples share one term, with counts
\* 1, 3, 2, 1 each: the score is 1.5 / 15, in floats 0.09999999999999998
PySamples ==
    {Ok("def dist(x):\n"), Ok("dist px px px py py pz"),
     Raise("[Errno 13] Permission denied")}

MdSamples ==
    {Ok(""), Ok("# the metric\n"), Ok("dist rx rx rx ry ry rz"),
     Raise("[Errno 13] Permission denied")}

\* the lists of at most MaxFiles files over a set of samples
FileLists(samples) == UNION {[1..n -> samples] : n \in 0..MaxFiles}

GateInit ==
    /\ report \in {[op |-> "ci_start", py_files |-> p, md_files |-> m] :
                      p \in FileLists(PySamples), m \in FileLists(MdSamples)}
    /\ code = ""
    /\ doc = ""
    /\ vectorizer = <<>>
    /\ tin = [t \in Threads |-> <<"", "">>]
    /\ tpc = [t \in Threads |-> "idle"]
    /\ tmatrix = [t \in Threads |-> <<<<>>, <<>>>>]
    /\ tout = [t \in Threads |-> NoReport]
    /\ bands = NoBands
    /\ pipe = NoPipe
    /\ scan = NoScan
    /\ hist = NoHist

\* python ci_check.py
CallCiMain ==
    /\ report.op = "ci_start"
    /\ report' = [op |-> "ci_check", py_files |-> report.py_files,
                  md_files |-> report.md_files,
                  out |-> main(report.py_files, report.md_files)]
    /\ UNCHANGED <<pipe, scan, hist, code, doc, vectorizer, tin, tpc, tmatrix,
                   tout, bands>>

GateNext == CallCiMain

SpecGate == GateInit /\ [][GateNext]_vars

\* what the check of C29 expects of the loaded texts
ExpectedStatus(code_text, doc_text) ==
    IF IsBlank(doc_text) THEN 1
    ELSE IF NumLess(symmetric_analysis(code_text, doc_text).symmetric_score,
                    Rat(1, 10)) THEN 1
    ELSE 0

\* C29: ci_check.main exits with status 1 when the loaded documentation
\* text is blank or the symmetric score is below 0.1 and with status 0
\* otherwise; with no Python file it exits 0 at once, whatever the
\* documentation files are.
C29_GateExitStatus ==
    report.op = "ci_check" =>
        IF report.py_files = <<>>
        THEN report.out = [stage |-> "no_files", status |-> 0]
        ELSE report.out.status =
                 ExpectedStatus(load_text(report.py_files),
                                load_text(report.md_files))

\* a run that scores a pair sharing one term: positive, below 0.1
C29_Witness ==
    /\ report.op = "ci_check"
    /\ report.py_files # <<>>
    /\ report.out.stage = "scored"
    /\ NumLess(Zero, report.out.score)
    /\ report.out.status = 1

\* ------------------------------------------------------------------------
\* The dashboard script of src/api/index.py: the array history of the page
\* and the copy it keeps in localStorage under 'docSyncHistory'.  An entry
\* is the number of the audit that produced it.
\* ------------------------------------------------------------------------
MaxAudits == 21
MaxViews == 1
MaxPending == 2

HistoryLimit == 20

AnalysisAlert == "Error during analysis. Check server logs."

\* array.slice(0, end)
slice(array, end) ==
    SubSeq(array, 1, IF Len(array) < end THEN Len(array) ELSE end)

\* array.filter((_, i) => i !== idx), idx counted from 0
filter_out(array, idx) ==
    SubSeq(array, 1, idx) \o SubSeq(array, idx + 2, Len(array))

\* line 150, at page load with nothing stored: '[]' is parsed.  pending
\* counts the calls of runAudit that wait at line 184 or 185, disabled is
\* the state of the audit button, alert the last message alert() showed
HistInit ==
    /\ hist = [pc |-> "page", history |-> <<>>, stored |-> <<>>,
               pending |-> 0, disabled |-> FALSE, alert |-> "",
               audits |-> 0, views |-> 0]
    /\ code = ""
    /\ doc = ""
    /\ report = NoReport
    /\ vectorizer = <<>>
    /\ tin = [t \in Threads |-> <<"", "">>]
    /\ tpc = [t \in Threads |-> "idle"]
    /\ tmatrix = [t \in Threads |-> <<<<>>, <<>>>>]
    /\ tout = [t \in Threads |-> NoReport]
    /\ bands = NoBands
    /\ pipe = NoPipe
    /\ scan = NoScan

\* lines 171-184 of runAudit: without a code file it alerts and returns;
\* else it disables the button, sends the request and waits for the answer
audit_begun(h, code_file) ==
    IF ~code_file THEN [h EXCEPT !.alert = "Please upload a code file."]
    ELSE [h EXCEPT !.disabled = TRUE, !.pending = @ + 1]

\* a call of runAudit() up to its first await
RunAudit ==
    /\ hist.pc = "page"
    /\ hist.pending < MaxPending
    /\ hist.audits + hist.pending < MaxAudits
    /\ \E code_file \in BOOLEAN : hist' = audit_begun(hist, code_file)
    /\ UNCHANGED <<pipe, scan, code, doc, report, vectorizer, tin, tpc,
                   tmatrix, tout, bands>>

\* lines 185-198 of runAudit, after the awaits.  answer is "failed" when
\* fetch or resp.json() threw, "refused" when localStorage.setItem threw at
\* line 190 after history.unshift(data), "done" otherwise; data is the
\* entry; the catch of line 195 alerts
audit_answered(h, answer, data) ==
    CASE answer = "failed" ->
            [h EXCEPT !.pending = @ - 1, !.disabled = FALSE,
                      !.alert = AnalysisAlert]
      [] answer = "refused" ->
            [h EXCEPT !.pending = @ - 1, !.disabled = FALSE,
                      !.alert = AnalysisAlert,
                      !.history = <<data>> \o h.history,
                      !.audits = data]
      [] answer = "done" ->
            [h EXCEPT !.pending = @ - 1, !.disabled = FALSE,
                      !.history = <<data>> \o h.history,
                      !.stored = slice(<<data>> \o h.history, HistoryLimit),
                      !.audits = data]

\* the answer of /analyze to one of the waiting calls arrives
AuditAnswer ==
    /\ hist.pc = "page"
    /\ hist.pending > 0
    /\ \E answer \in {"failed", "refused", "done"} :
          hist' = audit_answered(hist, answer, hist.audits + 1)
    /\ UNCHANGED <<pipe, scan, code, doc, report, vectorizer, tin, tpc,
                   tmatrix, tout, bands>>

\* lines 337-339 of viewOldReport(idx): the entry moves to the front and
\* the whole array is stored, unless localStorage.setItem throws
view_old_report(h, idx, accepted) ==
    [h EXCEPT !.history = <<h.history[idx + 1]>> \o filter_out(h.history, idx),
              !.stored = IF accepted
                         THEN <<h.history[idx + 1]>> \o filter_out(h.history, idx)
                         ELSE @,
              !.views = h.views + 1]

\* a click on the View button of one of the rows updateHistoryTable draws
\* when the history view is shown
ViewOldReport ==
    /\ hist.pc = "page"
    /\ hist.views < MaxViews
    /\ \E idx \in 0..(Len(hist.history) - 1), accepted \in BOOLEAN :
          hist' = view_old_report(hist, idx, accepted)
    /\ UNCHANGED <<pipe, scan, code, doc, report, vectorizer, tin, tpc,
                   tmatrix, tout, bands>>

HistNext == RunAudit \/ AuditAnswer \/ ViewOldReport

SpecHistory == HistInit /\ [][HistNext]_vars

\* C30: the history stored under 'docSyncHistory' never holds more than 20
\* entries, after any sequence of audits and View actions of a page session.
C30_StoredAtMostTwenty ==
    hist.pc = "page" => Len(hist.stored) <= HistoryLimit

====
